---- MODULE Spec2Model ----
(***************************************************************************)
(* Model of the nats-mcp tool handlers and of the JetStream state they     *)
(* read and change.  One action per tool handler; the broker is the only   *)
(* owner of stream, message and consumer state.                            *)
(***************************************************************************)
EXTENDS Integers, Sequences, FiniteSets, TLC

(***************************************************************************)
(* JavaScript optional values: undefined is <<>>, a defined value v is     *)
(* <<v>>.                                                                  *)
(***************************************************************************)
None == <<>>
Some(v) == <<v>>
IsSome(o) == Len(o) > 0
Get(o) == o[1]

NullishWithoutFallback(a, b) == a

NullishAsOr(a, b) == IF IsSome(a) /\ ToString(Get(a)) \notin {"0", "FALSE"} THEN a ELSE b

\* a ?? b on optional values
Nullish(a, b) == IF IsSome(a) THEN a ELSE b

\* JavaScript truthiness of an optional number (undefined and 0 are falsy)
TruthyNum(o) == IsSome(o) /\ Get(o) # 0

\* JavaScript truthiness of an optional boolean
TruthyBool(o) == IsSome(o) /\ Get(o)

\* JavaScript truthiness of an optional string (undefined and "" are falsy)
TruthyStr(o) == IsSome(o) /\ Get(o) # ""

Max(a, b) == IF a >= b THEN a ELSE b

SeqToSet(s) == {s[i] : i \in 1..Len(s)}

(***************************************************************************)
(* Bounds and value sets                                                   *)
(***************************************************************************)
StreamName == "orders"
\* consumer names, in the order the broker lists them
ConsumerOrder == <<"c1", "c2">>
ConsumerNames == {"c1", "c2"}

\* stream and consumer sequence numbers sampled around the lag threshold
LagSeqs == {0, 1, 50, 1000, 1001, 1200}

LagThreshold == 1000

\* subjects are sequences of tokens: orders.created is <<"orders", "created">>
OrdersCreated == <<"orders", "created">>
OrdersShipped == <<"orders", "shipped">>
OrdersAny == <<"orders", "*">>
Audit == <<"audit">>

\* subject filters a stream descriptor or an addSubjects call may name
SubjectFilters == {OrdersAny, OrdersCreated, Audit}

\* longest subject list handed to addSubjects
MaxSubjectArgs == 2

\* highest stream sequence number the broker assigns
MaxSeq == 2

\* last instant of the broker clock
MaxTime == 1

\* published messages that may be on their way to the broker at once
MaxInflight == 1

\* largest count handed to listRecentMessages
MaxCount == 2

VARIABLES
    streamExists,   \* the stream StreamName exists on the broker
    config,         \* its descriptor (StreamConfig)
    msgs,           \* stored messages: sequence number -> [subject, time]
    last_seq,       \* state.last_seq of the stream
    consumers,      \* consumer name -> ConsumerInfo
    now,            \* broker clock
    inflight,       \* messages written to a client connection, not yet ingested
    blobs,          \* backup blobs in the object store: name -> blob
    calls,          \* broker requests issued by the invocation that just returned
    result,         \* what the invocation that just returned gave its caller
    process,        \* the server process: starting, serving over a transport, or exited
    tasks           \* handler invocations suspended at an await, by task

vars == <<streamExists, config, msgs, last_seq, consumers, now, inflight, blobs, calls, result,
          process, tasks>>

brokerVars == <<streamExists, config, msgs, last_seq, consumers, now, inflight, blobs>>

(***************************************************************************)
(* The process and its suspended handler invocations                       *)
(***************************************************************************)
TaskIds == {"t1", "t2"}

NoTask == [tool |-> "none", pc |-> "idle"]

NoTasks == [t \in TaskIds |-> NoTask]

\* mcpTransport is process.env.MCP_TRANSPORT, express whether the import of
\* express succeeded.  sseTransport is main's variable of that name (null at
\* the start), sseTransports the SSEServerTransport objects created so far,
\* each named by the session of the client whose GET /sse created it
Process(status, transport, exitCode, mcpTransport, express) ==
    [status |-> status, transport |-> transport, exitCode |-> exitCode,
     express |-> express, MCP_TRANSPORT |-> mcpTransport,
     sseTransport |-> None, sseTransports |-> {}]

\* a process that main has put on the stdio transport
StdioProcess == Process("serving", "stdio", None, None, FALSE)

HoldsEventLoopWhileSleeping(task) == task.pc = "sleeping"

\* a handler suspended at an await (a broker reply, the monitor's setTimeout
\* promise) has left the event loop
HoldsEventLoop(task) == FALSE

\* a handler can run: the process serves and the event loop is free
Runnable ==
    /\ process.status = "serving"
    /\ \A t \in TaskIds : ~HoldsEventLoop(tasks[t])

StartTransportWithFallback(mcpTransport, express, connected) ==
    IF TruthyStr(mcpTransport) /\ Get(mcpTransport) = "sse" /\ express
    THEN Process("serving", "sse", None, mcpTransport, express)
    ELSE IF connected
    THEN Process("serving", "stdio", None, mcpTransport, express)
    ELSE Process("exited", "none", Some(1), mcpTransport, express)

\* main(): the transport the process ends up serving on, or its exit.
\* connected is whether server.connect(transport) succeeded; its failure is
\* caught by main().catch, which exits with status 1
StartTransport(mcpTransport, express, connected) ==
    IF TruthyStr(mcpTransport) /\ Get(mcpTransport) = "sse"
    THEN IF ~express
         THEN Process("exited", "none", Some(1), mcpTransport, express)
         ELSE Process("serving", "sse", None, mcpTransport, express)
    ELSE IF connected
    THEN Process("serving", "stdio", None, mcpTransport, express)
    ELSE Process("exited", "none", Some(1), mcpTransport, express)

(***************************************************************************)
(* Handler results.  outcome "ok" is a returned envelope without isError,  *)
(* "error" a returned envelope with isError = true, "threw" a rejected     *)
(* promise (the handler did not return an envelope).                       *)
(***************************************************************************)
Idle == [tool |-> "none", outcome |-> "none"]

Threw(t) == [tool |-> t, outcome |-> "threw"]

ErrorResult(t) == [tool |-> t, outcome |-> "error"]

(***************************************************************************)
(* BaseTool helpers                                                        *)
(***************************************************************************)
\* safeNumber(value, fallback): value when it is a number, else fallback
safeNumber(value, fallback) == IF IsSome(value) THEN Get(value) ELSE fallback

(***************************************************************************)
(* Consumer diagnostics                                                    *)
(***************************************************************************)
\* status.delivered?.stream_seq
deliveredStreamSeq(status) ==
    IF IsSome(status.delivered) THEN Some(Get(status.delivered).stream_seq) ELSE None

\* pending >= max_ack_pending * 0.9, on integers
ApproachingAckLimit(pending, maxAckPending) == 10 * pending >= 9 * maxAckPending

\* ConsumerTools.diagnoseConsumer: lag clamped at 0, missing fields read as 0
ConsumerLag(streamLastSeq, deliveredSeq) == Max(0, streamLastSeq - deliveredSeq)

diagnoseReport(status, lastSeq) ==
    LET streamLastSeq == safeNumber(Some(lastSeq), 0)
        deliveredSeq  == safeNumber(deliveredStreamSeq(status), 0)
        lag           == ConsumerLag(streamLastSeq, deliveredSeq)
        pending       == safeNumber(Some(status.num_pending), 0)
        redelivered   == safeNumber(Some(status.num_redelivered), 0)
        waiting       == safeNumber(Some(status.num_waiting), 0)
        map           == status.config.max_ack_pending
    IN  [lag |-> Some(lag),
         num_pending |-> pending,
         num_waiting |-> waiting,
         num_redelivered |-> redelivered,
         issues |->
              (IF pending > 0 THEN {"pending"} ELSE {})
         \cup (IF redelivered > 0 THEN {"redelivered"} ELSE {})
         \cup (IF lag > LagThreshold THEN {"high lag"} ELSE {})
         \cup (IF waiting = 0 THEN {"no pull requests"} ELSE {})
         \cup (IF TruthyNum(map) /\ ApproachingAckLimit(pending, safeNumber(map, 0))
               THEN {"ack pending limit"} ELSE {})
         \cup (IF ~IsSome(status.delivered) THEN {"delivery data missing"} ELSE {})]

diagnoseConsumer(consumer, reachable) ==
    /\ Runnable
    /\ UNCHANGED <<process, tasks>>
    /\ calls' = <<>>
    /\ UNCHANGED brokerVars
    /\ result' =
         IF ~reachable THEN Threw("diagnoseConsumer")
         ELSE IF ~streamExists \/ consumer \notin DOMAIN consumers
              THEN ErrorResult("diagnoseConsumer")
         ELSE [tool |-> "diagnoseConsumer", outcome |-> "ok",
               consumer |-> consumer,
               report |-> diagnoseReport(consumers[consumer], last_seq)]

\* the diagnoseConsumer tool as registered without BaseTool (and in index.ts):
\* the raw difference, dereferencing status.delivered
diagnoseToolReport(status, lastSeq) ==
    LET lag == lastSeq - Get(status.delivered).stream_seq
        map == status.config.max_ack_pending
    IN  [lag |-> Some(lag),
         num_pending |-> status.num_pending,
         num_waiting |-> status.num_waiting,
         num_redelivered |-> status.num_redelivered,
         issues |->
              (IF status.num_pending > 0 THEN {"pending"} ELSE {})
         \cup (IF status.num_redelivered > 0 THEN {"redelivered"} ELSE {})
         \cup (IF lag > LagThreshold THEN {"high lag"} ELSE {})
         \cup (IF status.num_waiting = 0 THEN {"no pull requests"} ELSE {})
         \cup (IF TruthyNum(map) /\ ApproachingAckLimit(status.num_pending, Get(map))
               THEN {"ack pending limit"} ELSE {})]

diagnoseConsumerTool(consumer, reachable) ==
    /\ Runnable
    /\ UNCHANGED <<process, tasks>>
    /\ calls' = <<>>
    /\ UNCHANGED brokerVars
    /\ result' =
         IF ~reachable THEN Threw("diagnoseConsumerTool")
         ELSE IF ~streamExists \/ consumer \notin DOMAIN consumers
              THEN ErrorResult("diagnoseConsumerTool")
         \* status.delivered undefined: TypeError, caught by the handler
         ELSE IF ~IsSome(consumers[consumer].delivered)
              THEN ErrorResult("diagnoseConsumerTool")
         ELSE [tool |-> "diagnoseConsumerTool", outcome |-> "ok",
               consumer |-> consumer,
               report |-> diagnoseToolReport(consumers[consumer], last_seq)]

\* checkConsumerLag: reports the three counters of the consumer info only
checkConsumerLagReport(stats) ==
    [lag |-> None,
     num_pending |-> safeNumber(Some(stats.num_pending), 0),
     num_waiting |-> safeNumber(Some(stats.num_waiting), 0),
     num_redelivered |-> safeNumber(Some(stats.num_redelivered), 0),
     issues |-> {}]

checkConsumerLag(consumer, reachable) ==
    /\ Runnable
    /\ UNCHANGED <<process, tasks>>
    /\ calls' = <<>>
    /\ UNCHANGED brokerVars
    /\ result' =
         IF ~reachable THEN Threw("checkConsumerLag")
         ELSE IF ~streamExists \/ consumer \notin DOMAIN consumers
              THEN ErrorResult("checkConsumerLag")
         ELSE [tool |-> "checkConsumerLag", outcome |-> "ok",
               consumer |-> consumer,
               report |-> checkConsumerLagReport(consumers[consumer])]

(***************************************************************************)
(* Stream descriptors                                                      *)
(***************************************************************************)
DefaultConfig ==
    [name |-> StreamName, subjects |-> <<OrdersAny>>, sources |-> None,
     max_age |-> Some(0), max_bytes |-> Some(-1), max_msgs |-> Some(-1),
     max_msg_size |-> Some(-1), max_consumers |-> Some(-1),
     max_msgs_per_subject |-> Some(-1), storage |-> Some("file"),
     num_replicas |-> Some(1), retention |-> Some("limits"),
     discard |-> Some("old"), duplicate_window |-> Some(120),
     sealed |-> Some(FALSE), deny_delete |-> Some(FALSE),
     deny_purge |-> Some(FALSE), allow_rollup_hdrs |-> Some(FALSE)]

\* a descriptor in which the broker left optional fields out of its reply
SparseConfig ==
    [DefaultConfig EXCEPT !.max_msg_size = None, !.duplicate_window = None,
                          !.sealed = None, !.allow_rollup_hdrs = None,
                          !.max_msgs = Some(5), !.subjects = <<OrdersCreated, Audit>>]

ConsumerConfig(name, maxAckPending) ==
    [durable_name |-> name, max_ack_pending |-> maxAckPending]

\* the info of a consumer the broker has just created
NewConsumerInfo(cfg) ==
    [delivered |-> Some([stream_seq |-> 0, consumer_seq |-> 0]),
     num_pending |-> 0, num_waiting |-> 0, num_redelivered |-> 0,
     config |-> cfg]

\* state.consumer_count of a stream info reply
consumer_count == Cardinality(DOMAIN consumers)

\* state.messages of a stream info reply
messages == Cardinality(DOMAIN msgs)

RECURSIVE SizeOf(_)
SizeOf(seqs) ==
    IF seqs = {} THEN 0
    ELSE LET s == CHOOSE x \in seqs : TRUE
         IN  msgs[s].size + SizeOf(seqs \ {s})

\* state.bytes of a stream info reply: the sizes of the stored messages
bytes == SizeOf(DOMAIN msgs)

NoMsgs == [s \in {} |-> None]

NoConsumers == [c \in {} |-> None]

Call(op) == [op |-> op, config |-> None]

(***************************************************************************)
(* addSubjects                                                             *)
(***************************************************************************)
RECURSIVE Dedup(_)
\* [...new Set(list)]: first occurrences, in order
Dedup(list) ==
    IF list = <<>> THEN <<>>
    ELSE LET front == Dedup(SubSeq(list, 1, Len(list) - 1))
             x     == list[Len(list)]
         IN  IF x \in SeqToSet(front) THEN front ELSE Append(front, x)

updatedSubjectsAppended(existing, subjects) == existing \o subjects

\* [...new Set([...(streamInfo.config.subjects || []), ...subjects])]
updatedSubjects(existing, subjects) == Dedup(existing \o subjects)

addSubjects(subjects, reachable, accepted) ==
    /\ Runnable
    /\ UNCHANGED <<process, tasks>>
    /\ UNCHANGED <<msgs, last_seq, consumers, now, inflight, blobs, streamExists>>
    /\ IF ~reachable
       THEN /\ result' = Threw("addSubjects")
            /\ calls' = <<>>
            /\ UNCHANGED config
       ELSE IF ~streamExists
       THEN /\ result' = ErrorResult("addSubjects")
            /\ calls' = <<>>
            /\ UNCHANGED config
       ELSE LET streamConfig ==
                    [config EXCEPT !.subjects = updatedSubjects(config.subjects, subjects)]
            IN  /\ calls' = <<[op |-> "streams.update", config |-> Some(streamConfig)]>>
                /\ IF accepted
                   THEN /\ config' = streamConfig
                        /\ result' = [tool |-> "addSubjects", outcome |-> "ok",
                                      subjects |-> subjects,
                                      report |-> [subjects |-> streamConfig.subjects]]
                   ELSE /\ UNCHANGED config
                        /\ result' = ErrorResult("addSubjects")

(***************************************************************************)
(* deleteStream                                                            *)
(***************************************************************************)
DeleteRefusedWhenForced(consumerCount, force) == consumerCount > 0 /\ TruthyBool(force)

\* streamInfo.state.consumer_count > 0 && !args.force
DeleteRefused(consumerCount, force) == consumerCount > 0 /\ ~TruthyBool(force)

deleteStream(force, reachable) ==
    /\ Runnable
    /\ UNCHANGED <<process, tasks>>
    /\ UNCHANGED <<now, inflight, blobs, config>>
    /\ IF ~reachable
       THEN /\ result' = Threw("deleteStream")
            /\ calls' = <<>>
            /\ UNCHANGED <<streamExists, msgs, last_seq, consumers>>
       ELSE IF ~streamExists
       THEN /\ result' = ErrorResult("deleteStream")
            /\ calls' = <<>>
            /\ UNCHANGED <<streamExists, msgs, last_seq, consumers>>
       ELSE IF DeleteRefused(consumer_count, force)
       THEN /\ result' = [tool |-> "deleteStream", outcome |-> "error",
                          force |-> force,
                          report |-> [consumer_count |-> consumer_count]]
            /\ calls' = <<>>
            /\ UNCHANGED <<streamExists, msgs, last_seq, consumers>>
       ELSE /\ calls' = <<Call("streams.delete")>>
            /\ streamExists' = FALSE
            /\ msgs' = NoMsgs
            /\ last_seq' = 0
            /\ consumers' = NoConsumers
            /\ result' = [tool |-> "deleteStream", outcome |-> "ok",
                          force |-> force,
                          report |-> [consumer_count |-> consumer_count]]

(***************************************************************************)
(* updateStreamConfig                                                      *)
(***************************************************************************)
NoUpdateArgs ==
    [maxAge |-> None, maxBytes |-> None, maxMsgs |-> None, maxMsgSize |-> None,
     maxConsumers |-> None, maxMsgsPerSubject |-> None, storage |-> None,
     numReplicas |-> None, retention |-> None, discard |-> None,
     duplicateWindow |-> None, sealed |-> None, denyDelete |-> None,
     denyPurge |-> None, allowRollupHdrs |-> None]

\* argument objects the model hands to updateStreamConfig: no field, or one
\* field with a falsy or a truthy value
UpdateArgs ==
    {NoUpdateArgs,
     [NoUpdateArgs EXCEPT !.maxMsgs = Some(0)],
     [NoUpdateArgs EXCEPT !.maxBytes = Some(7)],
     [NoUpdateArgs EXCEPT !.storage = Some("memory")],
     [NoUpdateArgs EXCEPT !.denyPurge = Some(TRUE)]}

\* args.storage ? (args.storage === "memory" ? Memory : File) : existing
StorageField(arg, existing) ==
    IF IsSome(arg) THEN (IF Get(arg) = "memory" THEN Some("memory") ELSE Some("file"))
    ELSE existing

\* args.retention ? args.retention : existing
RetentionField(arg, existing) == IF IsSome(arg) THEN arg ELSE existing

\* args.discard ? (args.discard === "old" ? Old : New) : existing
DiscardField(arg, existing) ==
    IF IsSome(arg) THEN (IF Get(arg) = "old" THEN Some("old") ELSE Some("new"))
    ELSE existing

\* { ...streamInfo.config, max_age: args.maxAge ?? streamInfo.config.max_age, ... }
MergedConfig(cfg, args) ==
    [cfg EXCEPT
        !.max_age = Nullish(args.maxAge, cfg.max_age),
        !.max_bytes = Nullish(args.maxBytes, cfg.max_bytes),
        !.max_msgs = Nullish(args.maxMsgs, cfg.max_msgs),
        !.max_msg_size = Nullish(args.maxMsgSize, cfg.max_msg_size),
        !.max_consumers = Nullish(args.maxConsumers, cfg.max_consumers),
        !.max_msgs_per_subject = Nullish(args.maxMsgsPerSubject, cfg.max_msgs_per_subject),
        !.storage = StorageField(args.storage, cfg.storage),
        !.num_replicas = Nullish(args.numReplicas, cfg.num_replicas),
        !.retention = RetentionField(args.retention, cfg.retention),
        !.discard = DiscardField(args.discard, cfg.discard),
        !.duplicate_window = Nullish(args.duplicateWindow, cfg.duplicate_window),
        !.sealed = Nullish(args.sealed, cfg.sealed),
        !.deny_delete = Nullish(args.denyDelete, cfg.deny_delete),
        !.deny_purge = Nullish(args.denyPurge, cfg.deny_purge),
        !.allow_rollup_hdrs = Nullish(args.allowRollupHdrs, cfg.allow_rollup_hdrs)]

updateStreamConfig(args, reachable, accepted) ==
    /\ Runnable
    /\ UNCHANGED <<process, tasks>>
    /\ UNCHANGED <<msgs, last_seq, consumers, now, inflight, blobs, streamExists>>
    /\ IF ~reachable
       THEN /\ result' = Threw("updateStreamConfig")
            /\ calls' = <<>>
            /\ UNCHANGED config
       ELSE IF ~streamExists
       THEN /\ result' = ErrorResult("updateStreamConfig")
            /\ calls' = <<>>
            /\ UNCHANGED config
       ELSE LET streamConfig == MergedConfig(config, args)
            IN  /\ calls' = <<[op |-> "streams.update", config |-> Some(streamConfig)]>>
                /\ IF accepted
                   THEN /\ config' = streamConfig
                        /\ result' = [tool |-> "updateStreamConfig", outcome |-> "ok",
                                      args |-> args,
                                      report |-> [messages |-> messages,
                                                  last_seq |-> last_seq,
                                                  consumer_count |-> consumer_count]]
                   ELSE /\ UNCHANGED config
                        /\ result' = ErrorResult("updateStreamConfig")

(***************************************************************************)
(* addStreamSource and removeStreamSource.  config.sources is an optional  *)
(* list of [name |-> ...] entries.                                         *)
(***************************************************************************)
\* longest source list a stream is given
MaxSources == 2

SourceResult(tool, outcome, sourceStream) ==
    [tool |-> tool, outcome |-> outcome, sourceStream |-> sourceStream]

\* [...(streamInfo.config.sources || []), { name: args.sourceStream }]
AppendedSources(sources, sourceStream) ==
    (IF IsSome(sources) THEN Get(sources) ELSE <<>>) \o <<[name |-> sourceStream]>>

\* sourceExists: js.streams.info(args.sourceStream) finds the source stream
addStreamSource(sourceStream, sourceExists, reachable, accepted) ==
    /\ Runnable
    /\ UNCHANGED <<process, tasks>>
    /\ UNCHANGED <<msgs, last_seq, consumers, now, inflight, blobs, streamExists>>
    /\ IF ~reachable
       THEN /\ result' = Threw("addStreamSource")
            /\ calls' = <<>>
            /\ UNCHANGED config
       ELSE IF ~streamExists \/ ~sourceExists
       THEN /\ result' = SourceResult("addStreamSource", "error", sourceStream)
            /\ calls' = <<>>
            /\ UNCHANGED config
       ELSE LET streamConfig ==
                    [config EXCEPT !.sources = Some(AppendedSources(config.sources, sourceStream))]
            IN  /\ Len(Get(streamConfig.sources)) <= MaxSources
                /\ calls' = <<[op |-> "streams.update", config |-> Some(streamConfig)]>>
                /\ IF accepted
                   THEN /\ config' = streamConfig
                        /\ result' = SourceResult("addStreamSource", "ok", sourceStream)
                   ELSE /\ UNCHANGED config
                        /\ result' = SourceResult("addStreamSource", "error", sourceStream)

\* !streamInfo.config.sources || streamInfo.config.sources.length === 0
NoSources(sources) == ~IsSome(sources) \/ Len(Get(sources)) = 0

\* streamInfo.config.sources.filter(s => s.name !== args.sourceStream)
updatedSources(sources, sourceStream) ==
    SelectSeq(sources, LAMBDA s : s.name # sourceStream)

SourceNotConfiguredNever(updated, sources) == FALSE

\* updatedSources.length === streamInfo.config.sources.length
SourceNotConfigured(updated, sources) == Len(updated) = Len(sources)

removeStreamSource(sourceStream, reachable, accepted) ==
    /\ Runnable
    /\ UNCHANGED <<process, tasks>>
    /\ UNCHANGED <<msgs, last_seq, consumers, now, inflight, blobs, streamExists>>
    /\ IF ~reachable
       THEN /\ result' = Threw("removeStreamSource")
            /\ calls' = <<>>
            /\ UNCHANGED config
       ELSE IF ~streamExists \/ NoSources(config.sources)
       THEN /\ result' = SourceResult("removeStreamSource", "error", sourceStream)
            /\ calls' = <<>>
            /\ UNCHANGED config
       ELSE IF SourceNotConfigured(updatedSources(Get(config.sources), sourceStream),
                                   Get(config.sources))
       THEN /\ result' = SourceResult("removeStreamSource", "error", sourceStream)
            /\ calls' = <<>>
            /\ UNCHANGED config
       ELSE LET streamConfig ==
                    [config EXCEPT
                        !.sources = Some(updatedSources(Get(config.sources), sourceStream))]
            IN  /\ calls' = <<[op |-> "streams.update", config |-> Some(streamConfig)]>>
                /\ IF accepted
                   THEN /\ config' = streamConfig
                        /\ result' = SourceResult("removeStreamSource", "ok", sourceStream)
                   ELSE /\ UNCHANGED config
                        /\ result' = SourceResult("removeStreamSource", "error", sourceStream)

(***************************************************************************)
(* backupStream                                                            *)
(***************************************************************************)
BackupVersion == "1.0"

\* `${args.stream}-${timestamp}.json`: the blob name as (stream, instant)
BackupFileName(stream, instant) == <<stream, instant>>

\* the backup object serialised by the backup branch
BackupOf(cfg, state, consumerInfos, instant) ==
    [version |-> Some(BackupVersion),
     config |-> cfg,
     state |-> state,
     consumers |-> consumerInfos,
     timestamp |-> instant]

UnsupportedVersionOnlyWhenTagged(version) == IsSome(version) /\ version # Some(BackupVersion)

\* backupData.version !== "1.0"
UnsupportedVersion(version) == version # Some(BackupVersion)

\* js.consumers.list(stream): name and config of every consumer
ConsumerList(infos) ==
    LET present == SelectSeq(ConsumerOrder, LAMBDA n : n \in DOMAIN infos)
    IN  [i \in 1..Len(present) |-> [name |-> present[i], config |-> infos[present[i]].config]]

\* restore of the consumers, one after the other: add, and update when the add
\* fails.  st is [consumers, calls, failed].
RECURSIVE RestoreConsumers(_, _, _)
RestoreConsumers(list, st, updateAccepted) ==
    IF list = <<>> \/ st.failed THEN st
    ELSE LET c    == list[1]
             name == c.config.durable_name
             addOk == name \notin DOMAIN st.consumers
                      \/ st.consumers[name].config = c.config
             afterAdd ==
                 IF name \in DOMAIN st.consumers THEN st.consumers
                 ELSE [n \in DOMAIN st.consumers \cup {name} |->
                          IF n = name THEN NewConsumerInfo(c.config) ELSE st.consumers[n]]
             next ==
                 IF addOk
                 THEN [consumers |-> afterAdd,
                       calls |-> Append(st.calls, Call("consumers.add")),
                       failed |-> FALSE]
                 ELSE IF updateAccepted /\ c.name \in DOMAIN st.consumers
                 THEN [consumers |-> [st.consumers EXCEPT ![c.name].config = c.config],
                       calls |-> st.calls \o <<Call("consumers.add"), Call("consumers.update")>>,
                       failed |-> FALSE]
                 ELSE [consumers |-> st.consumers,
                       calls |-> st.calls \o <<Call("consumers.add"), Call("consumers.update")>>,
                       failed |-> TRUE]
         IN  RestoreConsumers(Tail(list), next, updateAccepted)

BackupResult(outcome, action, backupName, version) ==
    [tool |-> "backupStream", outcome |-> outcome, action |-> action,
     backupName |-> backupName, version |-> version]

backupStream(action, backupName, gcsAvailable, reachable, bucketExists, accepted, consumerAccepted) ==
    /\ Runnable
    /\ UNCHANGED <<process, tasks>>
    /\ UNCHANGED <<now, inflight>>
    /\ IF ~gcsAvailable
       THEN /\ result' = BackupResult("error", action, backupName, None)
            /\ calls' = <<>>
            /\ UNCHANGED <<streamExists, config, msgs, last_seq, consumers, blobs>>
       ELSE IF ~reachable
       THEN /\ result' = BackupResult("threw", action, backupName, None)
            /\ calls' = <<>>
            /\ UNCHANGED <<streamExists, config, msgs, last_seq, consumers, blobs>>
       ELSE IF ~bucketExists
       THEN /\ result' = BackupResult("error", action, backupName, None)
            /\ calls' = <<>>
            /\ UNCHANGED <<streamExists, config, msgs, last_seq, consumers, blobs>>
       ELSE IF action = "backup"
       THEN /\ calls' = <<>>
            /\ UNCHANGED <<streamExists, config, msgs, last_seq, consumers>>
            /\ IF ~streamExists
               THEN /\ result' = BackupResult("error", action, backupName, None)
                    /\ UNCHANGED blobs
               ELSE LET filename == BackupFileName(StreamName, now)
                        backup   == BackupOf(config, [messages |-> messages, last_seq |-> last_seq],
                                             ConsumerList(consumers), now)
                    IN  /\ blobs' = [n \in DOMAIN blobs \cup {filename} |->
                                        IF n = filename THEN backup ELSE blobs[n]]
                        /\ result' = BackupResult("ok", action, Some(filename), backup.version)
       ELSE \* restore
            /\ UNCHANGED blobs
            /\ IF ~IsSome(backupName) \/ Get(backupName) \notin DOMAIN blobs
               THEN \* no backup name, or the download fails
                    /\ result' = BackupResult("error", action, backupName, None)
                    /\ calls' = <<>>
                    /\ UNCHANGED <<streamExists, config, msgs, last_seq, consumers>>
               ELSE LET backupData == blobs[Get(backupName)]
                    IN  IF UnsupportedVersion(backupData.version)
                        THEN /\ result' = BackupResult("error", action, backupName,
                                                         backupData.version)
                             /\ calls' = <<>>
                             /\ UNCHANGED <<streamExists, config, msgs, last_seq, consumers>>
                        ELSE LET \* streams.info succeeded and streams.update was accepted
                                 updated == streamExists /\ accepted
                                 \* streams.add: creates, or succeeds on an equal descriptor
                                 addOk == ~streamExists \/ config = backupData.config
                                 streamCalls ==
                                     IF updated THEN <<Call("streams.update")>>
                                     ELSE IF streamExists
                                     THEN <<Call("streams.update"), Call("streams.add")>>
                                     ELSE <<Call("streams.add")>>
                                 streamOk == updated \/ addOk
                                 st == RestoreConsumers(backupData.consumers,
                                           [consumers |-> consumers, calls |-> streamCalls,
                                            failed |-> FALSE], consumerAccepted)
                             IN  IF ~streamOk
                                 THEN /\ result' = BackupResult("error", action, backupName,
                                                              backupData.version)
                                      /\ calls' = streamCalls
                                      /\ UNCHANGED <<streamExists, config, msgs, last_seq, consumers>>
                                 ELSE /\ streamExists' = TRUE
                                      /\ config' = backupData.config
                                      /\ UNCHANGED <<msgs, last_seq>>
                                      /\ consumers' = st.consumers
                                      /\ calls' = st.calls
                                      /\ result' = BackupResult(IF st.failed THEN "error" ELSE "ok",
                                                              action, backupName,
                                                              backupData.version)

(***************************************************************************)
(* Connections.  options is the NatsConnectOptions object of the call, env *)
(* the process environment; both are records of optional strings.          *)
(***************************************************************************)
\* a || b on optional strings
OrElse(a, b) == IF TruthyStr(a) THEN a ELSE b

DefaultServerUrl == "nats://localhost:4222"

NoOptions == [name |-> None, servers |-> None, token |-> None, credsFile |-> None, creds |-> None]

\* credsAuthenticator(...) of the creds blob, else of the creds file
CredsAuthenticator(creds, credsFile) ==
    IF TruthyStr(creds) THEN Some(<<"creds", Get(creds)>>)
    ELSE IF TruthyStr(credsFile) THEN Some(<<"credsFile", Get(credsFile)>>)
    ELSE None

\* connectOpts as built from the resolved servers, name, token, credsFile, creds
ConnectOpts(servers, name, token, credsFile, creds) ==
    [name |-> IF TruthyStr(name) THEN name ELSE None,
     servers |-> servers,
     token |-> IF TruthyStr(token) THEN token ELSE None,
     authenticator |-> CredsAuthenticator(creds, credsFile)]

\* connectOpts of connectNats
connectNatsOpts(options, env) ==
    ConnectOpts(OrElse(OrElse(options.servers, env.NATS_SERVER_URL), Some(DefaultServerUrl)),
                OrElse(options.name, env.NATS_CONNECTION_NAME),
                OrElse(options.token, env.NATS_TOKEN),
                OrElse(options.credsFile, env.NATS_CREDS_FILE),
                OrElse(options.creds, env.NATS_CREDS))

\* connectOpts of the second definition of connectNats: no default server URL
connectNatsNoDefaultOpts(options, env) ==
    ConnectOpts(OrElse(options.servers, env.NATS_SERVER_URL),
                OrElse(options.name, env.NATS_CONNECTION_NAME),
                OrElse(options.token, env.NATS_TOKEN),
                OrElse(options.credsFile, env.NATS_CREDS_FILE),
                OrElse(options.creds, env.NATS_CREDS))

\* connect({ servers: [process.env.NATS_SERVER_URL || "nats://localhost:4222"] })
connectDirectOpts(env) ==
    [name |-> None, servers |-> OrElse(env.NATS_SERVER_URL, Some(DefaultServerUrl)),
     token |-> None, authenticator |-> None]

\* connect({ servers: process.env.NATS_SERVER_URL })
serverInfoOpts(env) ==
    [name |-> None, servers |-> env.NATS_SERVER_URL, token |-> None, authenticator |-> None]

ConnectCall(connectOpts) == [op |-> "connect", config |-> Some(connectOpts)]

ConnectResult(via, outcome, options, env) ==
    [tool |-> via, outcome |-> outcome, options |-> options, env |-> env]

\* a connection is opened with connectOpts; fs.readFileSync of the creds file
\* throws before connect when the file cannot be read
OpenConnection(via, connectOpts, options, env, fileReadable, reachable) ==
    /\ Runnable
    /\ UNCHANGED <<process, tasks>>
    /\ UNCHANGED brokerVars
    /\ IF /\ IsSome(connectOpts.authenticator)
          /\ Get(connectOpts.authenticator)[1] = "credsFile"
          /\ ~fileReadable
       THEN /\ calls' = <<>>
            /\ result' = ConnectResult(via, "threw", options, env)
       ELSE /\ calls' = <<ConnectCall(connectOpts)>>
            /\ result' = ConnectResult(via, IF reachable THEN "ok" ELSE "threw", options, env)

connectNats(options, env, fileReadable, reachable) ==
    OpenConnection("connectNats", connectNatsOpts(options, env), options, env,
                   fileReadable, reachable)

connectNatsNoDefault(options, env, fileReadable, reachable) ==
    OpenConnection("connectNatsNoDefault", connectNatsNoDefaultOpts(options, env), options, env,
                   fileReadable, reachable)

\* the connection a StreamTools handler (and each tool of index.ts) opens
connectDirect(env, reachable) ==
    OpenConnection("connect", connectDirectOpts(env), NoOptions, env, TRUE, reachable)

\* the connection ClusterResource.serverInfo opens
serverInfo(env, reachable) ==
    OpenConnection("serverInfo", serverInfoOpts(env), NoOptions, env, TRUE, reachable)

(***************************************************************************)
(* listBackups.  A Date is an optional number: Some(t) for a valid instant, *)
(* None for an Invalid Date (its getTime() is NaN).                        *)
(***************************************************************************)
NaN == None

Abs(n) == IF n < 0 THEN -n ELSE n

\* blob names in the bucket that are not of backupStream's making:
\* <<stream, instant, form>> is a name whose timestamp part is a date string
\* that Date parses to instant; two forms of one instant are two names
DatedName(stream, instant, form) == <<stream, instant, form>>

\* A file name as text: a sequence of pieces, each a separator character, a
\* literal run of characters, or a group of digits.  The digits of a date
\* stand for its instant; "hh", "mm", "ss" and "sss" are the digit groups of
\* the time of day.
Instants == (0 - 9)..(MaxTime + 3)

DateText(instant) == ToString(instant)

\* Date.prototype.toISOString(): YYYY-MM-DDTHH:mm:ss.sssZ
toISOString(instant) ==
    <<DateText(instant), "T", "hh", ":", "mm", ":", "ss", ".", "sss", "Z">>

\* .replace(/[:.]/g, '-')
ReplaceColonsAndDots(text) ==
    [i \in 1..Len(text) |-> IF text[i] \in {":", "."} THEN "-" ELSE text[i]]

\* the characters of a blob name: `${args.stream}-${timestamp}.json` for a
\* name of backupStream's making, and for the others the stream, a '-', and
\* a date (YYYY-MM-DD) or a date-time (toISOString) string
FileNameText(name) ==
    <<name[1], "-">>
        \o (IF Len(name) = 2 THEN ReplaceColonsAndDots(toISOString(name[2]))
            ELSE IF name[3] = "date" THEN <<DateText(name[2])>>
            ELSE toISOString(name[2]))
        \o <<".json">>

\* .split('-').slice(1).join('-'): what follows the first '-'
AfterFirstDash(text) ==
    IF \E i \in 1..Len(text) : text[i] = "-"
    THEN LET first == CHOOSE i \in 1..Len(text) :
                          /\ text[i] = "-"
                          /\ \A j \in 1..(i - 1) : text[j] # "-"
         IN  SubSeq(text, first + 1, Len(text))
    ELSE <<>>

\* .replace('.json', ''): the first occurrence is removed
WithoutJsonSuffix(text) ==
    IF \E i \in 1..Len(text) : text[i] = ".json"
    THEN LET first == CHOOSE i \in 1..Len(text) :
                          /\ text[i] = ".json"
                          /\ \A j \in 1..(i - 1) : text[j] # ".json"
         IN  SubSeq(text, 1, first - 1) \o SubSeq(text, first + 1, Len(text))
    ELSE text

\* new Date(string): a date (YYYY-MM-DD) or a date-time in the toISOString
\* format is parsed to its instant; a date followed by 'T' and anything that
\* is not HH:mm:ss.sssZ is an Invalid Date
DateParse(text) ==
    IF Len(text) > 0 /\ (\E t \in Instants : DateText(t) = text[1])
          /\ (Len(text) = 1 \/ text = toISOString(CHOOSE t \in Instants : DateText(t) = text[1]))
    THEN Some(CHOOSE t \in Instants : DateText(t) = text[1])
    ELSE NaN

\* new Date(file.name.split('-').slice(1).join('-').replace('.json', '')).
\* backupStream's own names carry toISOString() with ':' and '.' replaced by
\* '-', which is not a date string Date parses
TimestampOf(name) == DateParse(WithoutJsonSuffix(AfterFirstDash(FileNameText(name))))

\* the blob names of the stream, and the timestamp listBackups reads in each
BlobNames ==
    {<<StreamName, t>> : t \in Instants}
        \cup {<<StreamName, t, form>> : t \in Instants, form \in {"date", "datetime"}}

ParsedTimestamps == [name \in BlobNames |-> TimestampOf(name)]

ParseTimestamp(name) == ParsedTimestamps[name]

\* Math.abs(a.getTime() - b.getTime()): NaN when either date is invalid
TimeDiff(a, b) == IF IsSome(a) /\ IsSome(b) THEN Some(Abs(Get(a) - Get(b))) ELSE NaN

\* prevDiff < currDiff on numbers that may be NaN
LessThan(a, b) == IsSome(a) /\ IsSome(b) /\ Get(a) < Get(b)

\* the orders in which a set of names can be put
Orderings(S) ==
    {f \in [1..Cardinality(S) -> S] : \A i, j \in 1..Cardinality(S) : f[i] = f[j] => i = j}

\* (a, b) => b.timestamp.getTime() - a.timestamp.getTime(), as sort reads it:
\* negative, zero or positive; a NaN result counts as zero
CompareRecency(a, b) ==
    LET ta == ParseTimestamp(a)
        tb == ParseTimestamp(b)
    IN  IF IsSome(ta) /\ IsSome(tb) THEN Get(tb) - Get(ta) ELSE 0

\* the comparator is consistent on the listing: comparing equal is transitive
ConsistentComparator(S) ==
    \A a, b, c \in S :
        (CompareRecency(a, b) = 0 /\ CompareRecency(b, c) = 0) => CompareRecency(a, c) = 0

\* Array.prototype.sort with CompareRecency: stable and descending by
\* timestamp when the comparator is consistent, else an order the
\* implementation chooses
SortOutcomes(listing) ==
    LET S == SeqToSet(listing)
        Pos(n) == CHOOSE i \in 1..Len(listing) : listing[i] = n
    IN  IF ConsistentComparator(S)
        THEN {f \in Orderings(S) :
                \A i, j \in 1..Len(f) :
                    i < j => \/ CompareRecency(f[i], f[j]) < 0
                             \/ /\ CompareRecency(f[i], f[j]) = 0
                                /\ Pos(f[i]) < Pos(f[j])}
        ELSE Orderings(S)

\* backups.reduce((prev, curr) => prevDiff < currDiff ? prev : curr)
RECURSIVE ClosestFrom(_, _, _)
ClosestFrom(prev, rest, target) ==
    IF rest = <<>> THEN prev
    ELSE LET curr     == rest[1]
             prevDiff == TimeDiff(ParseTimestamp(prev), target)
             currDiff == TimeDiff(ParseTimestamp(curr), target)
         IN  ClosestFrom(IF LessThan(prevDiff, currDiff) THEN prev ELSE curr,
                         Tail(rest), target)

Closest(backups, target) == ClosestFrom(backups[1], Tail(backups), target)

ListResult(outcome, targetDate, closest, list) ==
    [tool |-> "listBackups", outcome |-> outcome, targetDate |-> targetDate,
     closest |-> closest, list |-> list]

\* files is the listing bucket.getFiles returned, backups the sorted array
listBackups(targetDate, gcsAvailable, listed, files, backups) ==
    /\ Runnable
    /\ UNCHANGED <<process, tasks>>
    /\ UNCHANGED brokerVars
    /\ calls' = <<>>
    /\ SeqToSet(files) = DOMAIN blobs
    /\ backups \in SortOutcomes(files)
    /\ result' =
         IF ~gcsAvailable \/ ~listed THEN ListResult("error", targetDate, None, <<>>)
         ELSE IF Len(files) = 0 THEN ListResult("ok", targetDate, None, <<>>)
         ELSE IF IsSome(targetDate)
         THEN LET closest == Closest(backups, Get(targetDate))
              IN  \* closest.timestamp.toISOString() throws on an Invalid Date
                  IF IsSome(ParseTimestamp(closest))
                  THEN ListResult("ok", targetDate, Some(closest), <<>>)
                  ELSE ListResult("error", targetDate, None, <<>>)
         ELSE \* backup.timestamp.toISOString() of every backup
              IF \A i \in 1..Len(backups) : IsSome(ParseTimestamp(backups[i]))
              THEN ListResult("ok", targetDate, None, backups)
              ELSE ListResult("error", targetDate, None, <<>>)

(***************************************************************************)
(* Messages: publish, the broker's ingest, listRecentMessages, purgeStream *)
(***************************************************************************)
\* JetStream subject matching of a subject against a filter, token by token:
\* "*" matches one token, a trailing ">" one or more
TokenMatches(tok, pat) == pat = "*" \/ pat = tok

SubjectCaptured(subject, filter) ==
    IF Len(filter) > 0 /\ filter[Len(filter)] = ">"
    THEN /\ Len(subject) >= Len(filter)
         /\ \A i \in 1..(Len(filter) - 1) : TokenMatches(subject[i], filter[i])
    ELSE /\ Len(subject) = Len(filter)
         /\ \A i \in 1..Len(filter) : TokenMatches(subject[i], filter[i])

\* the stream stores a message published on this subject
StreamCaptures(subject) ==
    /\ streamExists
    /\ \E i \in 1..Len(config.subjects) : SubjectCaptured(subject, config.subjects[i])

\* nc.publish: the message is written to the connection and the handler
\* returns; nothing waits for the broker
publish(subject, reachable) ==
    /\ Runnable
    /\ UNCHANGED <<process, tasks>>
    /\ UNCHANGED <<streamExists, config, msgs, last_seq, consumers, now, blobs>>
    /\ calls' = <<>>
    /\ IF ~reachable
       THEN /\ result' = Threw("publish")
            /\ UNCHANGED inflight
       ELSE /\ Len(inflight) < MaxInflight
            /\ inflight' = Append(inflight, [subject |-> subject])
            /\ result' = [tool |-> "publish", outcome |-> "ok", subject |-> subject]

RemoveAt(s, i) == SubSeq(s, 1, i - 1) \o SubSeq(s, i + 1, Len(s))

\* the broker receives a published message and stores it in the stream that
\* captures its subject
BrokerIngest(i) ==
    /\ UNCHANGED <<process, tasks>>
    /\ i \in 1..Len(inflight)
    /\ inflight' = RemoveAt(inflight, i)
    /\ IF StreamCaptures(inflight[i].subject)
       THEN /\ last_seq < MaxSeq
            /\ last_seq' = last_seq + 1
            /\ msgs' = [s \in DOMAIN msgs \cup {last_seq + 1} |->
                           IF s = last_seq + 1
                           THEN [subject |-> inflight[i].subject, time |-> now,
                                 header |-> None, size |-> 0]
                           ELSE msgs[s]]
       ELSE UNCHANGED <<msgs, last_seq>>
    /\ UNCHANGED <<streamExists, config, consumers, now, blobs>>
    /\ calls' = <<>>
    /\ result' = Idle

\* time passes
Tick ==
    /\ UNCHANGED <<process, tasks>>
    /\ now < MaxTime
    /\ now' = now + 1
    /\ UNCHANGED <<streamExists, config, msgs, last_seq, consumers, inflight, blobs>>
    /\ calls' = <<>>
    /\ result' = Idle

\* for (seq = firstSeq; seq <= lastSeq; seq++): the messages whose fetch succeeds
RECURSIVE ScanUp(_, _)
ScanUp(seq, lastSeq) ==
    IF seq > lastSeq THEN <<>>
    ELSE (IF seq \in DOMAIN msgs
          THEN <<[sequence |-> seq, subject |-> msgs[seq].subject, time |-> msgs[seq].time]>>
          ELSE <<>>)
         \o ScanUp(seq + 1, lastSeq)

\* Math.max(1, lastSeq - count + 1)
RecentFirstSeq(lastSeq, count) == Max(1, lastSeq - count + 1)

listRecentMessages(count, reachable) ==
    /\ Runnable
    /\ UNCHANGED <<process, tasks>>
    /\ UNCHANGED brokerVars
    /\ calls' = <<>>
    /\ result' =
         IF ~reachable THEN Threw("listRecentMessages")
         ELSE IF ~streamExists THEN ErrorResult("listRecentMessages")
         ELSE [tool |-> "listRecentMessages", outcome |-> "ok", count |-> count,
               report |-> [messages |-> ScanUp(RecentFirstSeq(last_seq, count), last_seq)]]

NoPurgeArgs == [subject |-> None, sequence |-> None, keep |-> None, olderThan |-> None]

\* the keys purgeStream sets on purgeOpts
PurgeOptKeys(args) ==
         (IF IsSome(args.subject) THEN {"filter"} ELSE {})
    \cup (IF TruthyNum(args.sequence) THEN {"upto_seq"} ELSE {})
    \cup (IF TruthyNum(args.keep) THEN {"keep"} ELSE {})
    \cup (IF TruthyNum(args.olderThan) THEN {"older_than"} ELSE {})

PurgeOptsKeepAsSeq(args) ==
    [k \in (IF IsSome(args.subject) THEN {"filter"} ELSE {})
            \cup (IF TruthyNum(args.keep) THEN {"seq"} ELSE {}) |->
        IF k = "filter" THEN args.subject ELSE args.keep]

\* purgeOpts, as the object handed to js.streams.purge
PurgeOpts(args) ==
    [k \in PurgeOptKeys(args) |->
        CASE k = "filter"     -> args.subject
          [] k = "upto_seq"   -> args.sequence
          [] k = "keep"       -> args.keep
          [] k = "older_than" -> args.olderThan]

\* a field of a request object: undefined when the key is absent
Field(obj, key) == IF key \in DOMAIN obj THEN obj[key] ELSE None

\* the sequences a JetStream purge request removes.  The request fields the
\* broker knows are filter, seq and keep; any other key of the object is not
\* part of the purge request.
PurgedSeqs(stored, opts) ==
    LET filter  == Field(opts, "filter")
        seq     == Field(opts, "seq")
        keep    == Field(opts, "keep")
        matched == {s \in DOMAIN stored :
                        ~IsSome(filter) \/ SubjectCaptured(stored[s].subject, Get(filter))}
    IN  IF TruthyNum(seq) THEN {s \in matched : s < Get(seq)}
        ELSE IF TruthyNum(keep)
        THEN {s \in matched : Cardinality({t \in matched : t > s}) >= Get(keep)}
        ELSE matched

\* the broker refuses to purge a stream that denies purges or is sealed
PurgeDenied(cfg) == TruthyBool(cfg.deny_purge) \/ TruthyBool(cfg.sealed)

purgeStream(args, reachable) ==
    /\ Runnable
    /\ UNCHANGED <<process, tasks>>
    /\ UNCHANGED <<streamExists, config, last_seq, consumers, now, inflight, blobs>>
    /\ IF ~reachable
       THEN /\ result' = Threw("purgeStream")
            /\ calls' = <<>>
            /\ UNCHANGED msgs
       ELSE IF ~streamExists
       THEN /\ result' = ErrorResult("purgeStream")
            /\ calls' = <<>>
            /\ UNCHANGED msgs
       ELSE LET purgeOpts == PurgeOpts(args)
                purged    == PurgedSeqs(msgs, purgeOpts)
            IN  /\ calls' = <<Call("streams.purge")>>
                /\ IF PurgeDenied(config)
                   THEN /\ UNCHANGED msgs
                        /\ result' = ErrorResult("purgeStream")
                   ELSE /\ msgs' = [s \in DOMAIN msgs \ purged |-> msgs[s]]
                        /\ result' = [tool |-> "purgeStream", outcome |-> "ok",
                                      args |-> args,
                                      report |-> [purged |-> Cardinality(purged),
                                                  messages |-> messages - Cardinality(purged)]]

(***************************************************************************)
(* monitorStreamHealth, one action per stretch between two awaits          *)
(***************************************************************************)
\* a consumer's delivered sequence advances to the next stored sequence
Deliver(c) ==
    /\ UNCHANGED <<process, tasks>>
    /\ c \in DOMAIN consumers
    /\ IsSome(consumers[c].delivered)
    /\ Get(consumers[c].delivered).stream_seq < last_seq
    /\ consumers' =
         [consumers EXCEPT ![c].delivered =
             Some([stream_seq |-> Get(@).stream_seq + 1, consumer_seq |-> Get(@).consumer_seq + 1])]
    /\ UNCHANGED <<streamExists, config, msgs, last_seq, now, inflight, blobs>>
    /\ calls' = <<>>
    /\ result' = Idle

\* the locals of a monitorStreamHealth invocation
MonitorTask(pc, duration, startTime, startMessages, finalInfo, timeElapsed, pending, lags) ==
    [tool |-> "monitorStreamHealth", pc |-> pc, duration |-> duration,
     startTime |-> startTime, startMessages |-> startMessages, finalInfo |-> finalInfo,
     timeElapsed |-> timeElapsed, pending |-> pending, lags |-> lags]

NoLags == [c \in {} |-> 0]

\* lag = finalInfo.state.last_seq - status.delivered.stream_seq
MonitorLag(finalLastSeq, status) == finalLastSeq - Get(status.delivered).stream_seq

\* consumerMetrics.filter(c => c.lag > 1000)
HighLagConsumers(lags) == {c \in DOMAIN lags : lags[c] > LagThreshold}

\* finalInfo.config.max_bytes && finalInfo.state.bytes > finalInfo.config.max_bytes * 0.9
StorageNearLimit(maxBytes, stateBytes) ==
    TruthyNum(maxBytes) /\ 10 * stateBytes > 9 * Get(maxBytes)

MonitorReport(task, lags) ==
    [tool |-> "monitorStreamHealth", outcome |-> "ok",
     report |-> [lag |-> lags,
                 messagesDelta |-> task.finalInfo.messages - task.startMessages,
                 timeElapsed |-> task.timeElapsed,
                 highLag |-> HighLagConsumers(lags),
                 bytes |-> task.finalInfo.bytes,
                 max_bytes |-> task.finalInfo.max_bytes,
                 storage |-> StorageNearLimit(task.finalInfo.max_bytes,
                                              task.finalInfo.bytes)]]

\* connect, the initial js.streams.info, then the sleep begins
monitorStart(t, duration, reachable) ==
    /\ Runnable
    /\ tasks[t] = NoTask
    /\ UNCHANGED brokerVars
    /\ UNCHANGED process
    /\ calls' = <<>>
    /\ IF ~reachable
       THEN /\ result' = Threw("monitorStreamHealth")
            /\ UNCHANGED tasks
       ELSE IF ~streamExists
       THEN /\ result' = ErrorResult("monitorStreamHealth")
            /\ UNCHANGED tasks
       ELSE /\ result' = Idle
            /\ tasks' = [tasks EXCEPT ![t] =
                            MonitorTask("sleeping", duration, now, messages,
                                        [last_seq |-> 0, messages |-> 0, bytes |-> 0,
                                         max_bytes |-> None], 0, {}, NoLags)]

\* the timer has fired; the final js.streams.info is read
monitorFinalInfo(t) ==
    /\ Runnable
    /\ tasks[t].tool = "monitorStreamHealth"
    /\ tasks[t].pc = "sleeping"
    /\ now >= tasks[t].startTime + tasks[t].duration
    /\ UNCHANGED brokerVars
    /\ UNCHANGED process
    /\ calls' = <<>>
    /\ IF ~streamExists
       THEN /\ result' = ErrorResult("monitorStreamHealth")
            /\ tasks' = [tasks EXCEPT ![t] = NoTask]
       ELSE /\ result' = Idle
            /\ tasks' = [tasks EXCEPT ![t] =
                            [@ EXCEPT !.pc = "sampled",
                                      !.finalInfo = [last_seq |-> last_seq, messages |-> messages,
                                                    bytes |-> bytes,
                                                    max_bytes |-> config.max_bytes],
                                      !.timeElapsed = now - tasks[t].startTime]]

\* js.consumers.list is read; with no consumer the handler returns
monitorListConsumers(t) ==
    /\ Runnable
    /\ tasks[t].tool = "monitorStreamHealth"
    /\ tasks[t].pc = "sampled"
    /\ UNCHANGED brokerVars
    /\ UNCHANGED process
    /\ calls' = <<>>
    /\ IF DOMAIN consumers = {}
       THEN /\ result' = MonitorReport(tasks[t], NoLags)
            /\ tasks' = [tasks EXCEPT ![t] = NoTask]
       ELSE /\ result' = Idle
            /\ tasks' = [tasks EXCEPT ![t] =
                            [@ EXCEPT !.pc = "fetching", !.pending = DOMAIN consumers]]

\* one js.consumers.info reply of the Promise.all; the last one lets the
\* handler return
monitorConsumerInfo(t, c) ==
    /\ Runnable
    /\ tasks[t].tool = "monitorStreamHealth"
    /\ tasks[t].pc = "fetching"
    /\ c \in tasks[t].pending
    /\ UNCHANGED brokerVars
    /\ UNCHANGED process
    /\ calls' = <<>>
    /\ IF c \notin DOMAIN consumers \/ ~IsSome(consumers[c].delivered)
       THEN \* the info request fails, or status.delivered is undefined
            /\ result' = ErrorResult("monitorStreamHealth")
            /\ tasks' = [tasks EXCEPT ![t] = NoTask]
       ELSE LET lag  == MonitorLag(tasks[t].finalInfo.last_seq, consumers[c])
                lags == [n \in DOMAIN tasks[t].lags \cup {c} |->
                            IF n = c THEN lag ELSE tasks[t].lags[n]]
            IN  IF tasks[t].pending = {c}
                THEN /\ result' = MonitorReport(tasks[t], lags)
                     /\ tasks' = [tasks EXCEPT ![t] = NoTask]
                ELSE /\ result' = Idle
                     /\ tasks' = [tasks EXCEPT ![t] =
                                     [@ EXCEPT !.pending = @ \ {c}, !.lags = lags]]

(***************************************************************************)
(* addSubjects and deleteStream, one action per stretch between two awaits *)
(***************************************************************************)
\* another client of the broker creates a consumer on the stream
CreateConsumer(c) ==
    /\ UNCHANGED <<process, tasks>>
    /\ streamExists
    /\ c \notin DOMAIN consumers
    /\ consumers' = [n \in DOMAIN consumers \cup {c} |->
                        IF n = c THEN NewConsumerInfo(ConsumerConfig(c, None))
                        ELSE consumers[n]]
    /\ UNCHANGED <<streamExists, config, msgs, last_seq, now, inflight, blobs>>
    /\ calls' = <<>>
    /\ result' = Idle

\* the locals of an addSubjects invocation; once returned, its outcome
\* nc is the connection of the invocation: "none" when connect threw, else
\* "open"; the handler has no nc.close() on any path
AddSubjectsTask(pc, subjects, streamInfo, outcome) ==
    [tool |-> "addSubjects", pc |-> pc, subjects |-> subjects,
     streamInfo |-> streamInfo, outcome |-> outcome,
     nc |-> IF outcome = "threw" THEN "none" ELSE "open"]

\* connect, then js.streams.info
addSubjectsInfo(t, subjects, reachable) ==
    /\ Runnable
    /\ tasks[t] = NoTask
    /\ UNCHANGED brokerVars
    /\ UNCHANGED process
    /\ calls' = <<>>
    /\ IF ~reachable
       THEN /\ result' = Threw("addSubjects")
            /\ tasks' = [tasks EXCEPT ![t] =
                            AddSubjectsTask("returned", subjects, [config |-> config], "threw")]
       ELSE IF ~streamExists
       THEN /\ result' = ErrorResult("addSubjects")
            /\ tasks' = [tasks EXCEPT ![t] =
                            AddSubjectsTask("returned", subjects, [config |-> config], "error")]
       ELSE /\ result' = Idle
            /\ tasks' = [tasks EXCEPT ![t] =
                            AddSubjectsTask("updating", subjects, [config |-> config], "none")]

\* js.streams.update with the descriptor read earlier, then the return
addSubjectsUpdate(t, accepted) ==
    /\ Runnable
    /\ tasks[t].tool = "addSubjects"
    /\ tasks[t].pc = "updating"
    /\ UNCHANGED <<msgs, last_seq, consumers, now, inflight, blobs, streamExists>>
    /\ UNCHANGED process
    /\ LET streamInfo   == tasks[t].streamInfo
           streamConfig ==
               [streamInfo.config EXCEPT
                   !.subjects = updatedSubjects(streamInfo.config.subjects, tasks[t].subjects)]
       IN  /\ calls' = <<[op |-> "streams.update", config |-> Some(streamConfig)]>>
           /\ IF streamExists /\ accepted
              THEN /\ config' = streamConfig
                   /\ result' = [tool |-> "addSubjects", outcome |-> "ok",
                                 subjects |-> tasks[t].subjects,
                                 report |-> [subjects |-> streamConfig.subjects]]
                   /\ tasks' = [tasks EXCEPT ![t].pc = "returned", ![t].outcome = "ok"]
              ELSE /\ UNCHANGED config
                   /\ result' = ErrorResult("addSubjects")
                   /\ tasks' = [tasks EXCEPT ![t].pc = "returned", ![t].outcome = "error"]

\* the locals of a deleteStream invocation; once returned, its outcome
DeleteStreamTask(pc, force, streamInfo, outcome) ==
    [tool |-> "deleteStream", pc |-> pc, force |-> force,
     streamInfo |-> streamInfo, outcome |-> outcome,
     nc |-> IF outcome = "threw" THEN "none" ELSE "open"]

\* connect, js.streams.info, and the consumer-count check
deleteStreamInfo(t, force, reachable) ==
    /\ Runnable
    /\ tasks[t] = NoTask
    /\ UNCHANGED brokerVars
    /\ UNCHANGED process
    /\ calls' = <<>>
    /\ LET streamInfo == [state |-> [consumer_count |-> consumer_count]]
       IN  IF ~reachable
           THEN /\ result' = Threw("deleteStream")
                /\ tasks' = [tasks EXCEPT ![t] =
                                DeleteStreamTask("returned", force, streamInfo, "threw")]
           ELSE IF ~streamExists
           THEN /\ result' = ErrorResult("deleteStream")
                /\ tasks' = [tasks EXCEPT ![t] =
                                DeleteStreamTask("returned", force, streamInfo, "error")]
           ELSE IF DeleteRefused(consumer_count, force)
           THEN /\ result' = [tool |-> "deleteStream", outcome |-> "error", force |-> force,
                              report |-> [consumer_count |-> consumer_count]]
                /\ tasks' = [tasks EXCEPT ![t] =
                                DeleteStreamTask("returned", force, streamInfo, "error")]
           ELSE /\ result' = Idle
                /\ tasks' = [tasks EXCEPT ![t] =
                                DeleteStreamTask("deleting", force, streamInfo, "none")]

\* js.streams.delete, then the return
deleteStreamDelete(t) ==
    /\ Runnable
    /\ tasks[t].tool = "deleteStream"
    /\ tasks[t].pc = "deleting"
    /\ UNCHANGED <<now, inflight, blobs, config>>
    /\ UNCHANGED process
    /\ calls' = <<Call("streams.delete")>>
    /\ IF ~streamExists
       THEN /\ UNCHANGED <<streamExists, msgs, last_seq, consumers>>
            /\ result' = ErrorResult("deleteStream")
            /\ tasks' = [tasks EXCEPT ![t].pc = "returned", ![t].outcome = "error"]
       ELSE /\ streamExists' = FALSE
            /\ msgs' = NoMsgs
            /\ last_seq' = 0
            /\ consumers' = NoConsumers
            /\ result' = [tool |-> "deleteStream", outcome |-> "ok", force |-> tasks[t].force,
                          report |-> [consumer_count |->
                                          tasks[t].streamInfo.state.consumer_count]]
            /\ tasks' = [tasks EXCEPT ![t].pc = "returned", ![t].outcome = "ok"]

(***************************************************************************)
(* diagnoseStream                                                          *)
(***************************************************************************)
\* limit && value >= limit * 0.9
NearLimit(limit, value) == TruthyNum(limit) /\ 10 * value >= 9 * Get(limit)

\* the lines under "Potential Issues"
DiagnoseIssues(cfg, state) ==
    (IF state.messages = 0 THEN {"Stream is empty"} ELSE {})
        \cup (IF state.consumer_count = 0 THEN {"No consumers connected"} ELSE {})
        \cup (IF NearLimit(cfg.max_bytes, state.bytes)
              THEN {"Stream is approaching maximum size limit"} ELSE {})
        \cup (IF NearLimit(cfg.max_msgs, state.messages)
              THEN {"Stream is approaching maximum message limit"} ELSE {})

diagnoseStream(reachable) ==
    /\ Runnable
    /\ UNCHANGED <<process, tasks>>
    /\ UNCHANGED brokerVars
    /\ calls' = <<>>
    /\ IF ~reachable
       THEN result' = Threw("diagnoseStream")
       ELSE IF ~streamExists
       THEN result' = ErrorResult("diagnoseStream")
       ELSE LET state == [messages |-> messages, bytes |-> bytes,
                          consumer_count |-> consumer_count]
            IN  result' = [tool |-> "diagnoseStream", outcome |-> "ok",
                           report |-> [config |-> config, state |-> state,
                                       issues |-> DiagnoseIssues(config, state)]]

(***************************************************************************)
(* The SSE endpoints of main                                               *)
(***************************************************************************)
\* the Express app listens
ServingSse == process.status = "serving" /\ process.transport = "sse"

\* the outcome of a POST /messages: the transport whose handlePostMessage
\* received it, and whether the request got a response
PostResult(session, handledBy, responded) ==
    [tool |-> "POST /messages", outcome |-> "ok", session |-> session,
     handledBy |-> handledBy, responded |-> responded]

\* app.get("/sse"): a new transport replaces sseTransport and is connected
getSse(session) ==
    /\ ServingSse
    /\ session \notin process.sseTransports
    /\ process' = [process EXCEPT !.sseTransport = Some(session),
                                  !.sseTransports = @ \cup {session}]
    /\ result' = [tool |-> "GET /sse", outcome |-> "ok", session |-> session]
    /\ calls' = <<>>
    /\ UNCHANGED tasks
    /\ UNCHANGED brokerVars

\* app.post("/messages"): session is the sessionId the request carries;
\* handlePostMessage answers every request it receives
postMessages(session) ==
    /\ ServingSse
    /\ result' = IF IsSome(process.sseTransport)
                 THEN PostResult(session, process.sseTransport, TRUE)
                 ELSE PostResult(session, None, FALSE)
    /\ calls' = <<>>
    /\ UNCHANGED <<process, tasks>>
    /\ UNCHANGED brokerVars

(***************************************************************************)
(* Filtered scans: listMessagesBySubject, searchMessagesByHeader and       *)
(* messageSizeDistribution.  A string is the sequence of its characters;   *)
(* a stored message carries subject, time, header (an optional map from    *)
(* keys to values) and size (the length of its data).                      *)
(***************************************************************************)
ScanWindow == 500

\* the characters of a subject token
Letters(tok) ==
    CASE tok = "orders"  -> <<"o", "r", "d", "e", "r", "s">>
      [] tok = "created" -> <<"c", "r", "e", "a", "t", "e", "d">>
      [] tok = "shipped" -> <<"s", "h", "i", "p", "p", "e", "d">>
      [] tok = "audit"   -> <<"a", "u", "d", "i", "t">>
      [] OTHER           -> <<tok>>

\* msg.subject: the tokens joined by '.'
RECURSIVE Text(_)
Text(subject) ==
    IF subject = <<>> THEN <<>>
    ELSE IF Len(subject) = 1 THEN Letters(subject[1])
    ELSE Letters(subject[1]) \o <<".">> \o Text(Tail(subject))

\* the regular expression of subject.replace(/\*/g, ".*"): '*' has become
\* '.*', '.' stands for any character, every other character for itself
RegexOf(filter) ==
    [i \in 1..Len(filter) |->
        IF filter[i] = "*" THEN "anystar" ELSE IF filter[i] = "." THEN "any" ELSE filter[i]]

\* the items of regex from i on match text from j on: up to the end of text
\* when anchored, else up to anywhere
RECURSIVE MatchesFrom(_, _, _, _, _)
MatchesFrom(regex, i, text, j, anchored) ==
    IF i > Len(regex) THEN ~anchored \/ j > Len(text)
    ELSE IF regex[i] = "anystar"
    THEN \E k \in j..(Len(text) + 1) : MatchesFrom(regex, i + 1, text, k, anchored)
    ELSE /\ j <= Len(text)
         /\ regex[i] = "any" \/ regex[i] = text[j]
         /\ MatchesFrom(regex, i + 1, text, j + 1, anchored)

\* text.match(source) is not null
StringMatch(text, regex) ==
    \E start \in 1..(Len(text) + 1) : MatchesFrom(regex, 1, text, start, FALSE)

\* new RegExp(`^${source}$`).test(text)
RegExpTest(regex, text) == MatchesFrom(regex, 1, text, 1, TRUE)

\* msg.subject && (msg.subject === subject || msg.subject.match(...))
SubjectFilterMatches(msgSubject, subject) ==
    /\ msgSubject # <<>>
    /\ \/ msgSubject = subject
       \/ StringMatch(msgSubject, RegexOf(subject))

\* BaseTool-based MsgTools.subjectMatches
subjectMatches(msgSubject, filterSubject) ==
    IF msgSubject = <<>> \/ filterSubject = <<>> THEN FALSE
    ELSE IF msgSubject = filterSubject THEN TRUE
    ELSE IF "*" \in SeqToSet(filterSubject)
    THEN RegExpTest(RegexOf(filterSubject), msgSubject)
    ELSE FALSE

\* msg.header && msg.header.has(headerKey), then !headerValue || value === headerValue
HeaderMatches(header, headerKey, headerValue) ==
    /\ IsSome(header)
    /\ headerKey \in DOMAIN Get(header)
    /\ headerValue = "" \/ Get(header)[headerKey] = headerValue

\* BaseTool-based MsgTools.checkHeaderMatch(...).isMatch
checkHeaderMatch(headers, headerKey, headerValue) ==
    IF ~IsSome(headers) \/ headerKey = "" THEN FALSE
    ELSE IF headerKey \notin DOMAIN Get(headers) THEN FALSE
    ELSE IF headerValue = "" THEN TRUE
    ELSE Get(headers)[headerKey] = headerValue

\* the test a scan applies to a fetched message
Matched(filter, msg) ==
    CASE filter.by = "subject"     -> SubjectFilterMatches(Text(msg.subject), filter.subject)
      [] filter.by = "subjectBase" -> subjectMatches(Text(msg.subject), filter.subject)
      [] filter.by = "header"      -> HeaderMatches(msg.header, filter.headerKey, filter.headerValue)
      [] filter.by = "headerBase"  -> checkHeaderMatch(msg.header, filter.headerKey,
                                                       filter.headerValue)

GetMessageCall(seq) == [op |-> "streams.getMessage", config |-> Some(seq)]

FilterFirstSeqWholeStream(lastSeq) == 1

\* Math.max(1, lastSeq - 500 + 1)
FilterFirstSeq(lastSeq) == Max(1, lastSeq - ScanWindow + 1)

\* one iteration of for (seq = lastSeq; seq >= firstSeq && messages.length <
\* count; seq--): st holds the messages pushed and the getMessage requests
\* issued so far; once count messages are held no iteration runs
ScanStep(seq, count, filter, st) ==
    IF ~(Len(st.messages) < count) THEN st
    ELSE [messages |->
              IF seq \in DOMAIN msgs /\ Matched(filter, msgs[seq])
              THEN Append(st.messages,
                          [sequence |-> seq, subject |-> msgs[seq].subject,
                           time |-> msgs[seq].time])
              ELSE st.messages,
          calls |-> Append(st.calls, GetMessageCall(seq))]

\* the iterations for seq from hi down to firstSeq, in that order (the upper
\* half of the range first, then the lower half)
RECURSIVE ScanDown(_, _, _, _, _)
ScanDown(hi, firstSeq, count, filter, st) ==
    IF hi < firstSeq THEN st
    ELSE IF hi = firstSeq THEN ScanStep(hi, count, filter, st)
    ELSE LET mid   == (hi + firstSeq + 1) \div 2
             upper == ScanDown(hi, mid, count, filter, st)
         IN  IF ~(Len(upper.messages) < count) THEN upper
             ELSE ScanDown(mid - 1, firstSeq, count, filter, upper)

\* the body shared by the four filtered scans
FilteredScan(tool, filter, count, reachable) ==
    /\ Runnable
    /\ UNCHANGED <<process, tasks>>
    /\ UNCHANGED brokerVars
    /\ IF ~reachable
       THEN /\ calls' = <<>>
            /\ result' = Threw(tool)
       ELSE IF ~streamExists
       THEN /\ calls' = <<>>
            /\ result' = ErrorResult(tool)
       ELSE LET lastSeq == last_seq
                st == ScanDown(lastSeq, FilterFirstSeq(lastSeq), count, filter,
                               [messages |-> <<>>, calls |-> <<>>])
            IN  /\ calls' = st.calls
                /\ result' = [tool |-> tool, outcome |-> "ok", count |-> count,
                              filter |-> filter, lastSeq |-> lastSeq,
                              report |-> [messages |-> st.messages]]

SubjectFilter(by, subject) == [by |-> by, subject |-> subject]

HeaderFilter(by, headerKey, headerValue) ==
    [by |-> by, headerKey |-> headerKey, headerValue |-> headerValue]

\* MsgTools.listMessagesBySubject of msgTools.ts
listMessagesBySubject(subject, count, reachable) ==
    FilteredScan("listMessagesBySubject", SubjectFilter("subject", subject), count, reachable)

\* MsgTools.listMessagesBySubject of the BaseTool-based class
listMessagesBySubjectBase(subject, count, reachable) ==
    FilteredScan("listMessagesBySubjectBase", SubjectFilter("subjectBase", subject), count,
                 reachable)

\* MsgTools.searchMessagesByHeader of msgTools.ts
searchMessagesByHeader(headerKey, headerValue, count, reachable) ==
    FilteredScan("searchMessagesByHeader", HeaderFilter("header", headerKey, headerValue),
                 count, reachable)

\* MsgTools.searchMessagesByHeader of the BaseTool-based class
searchMessagesByHeaderBase(headerKey, headerValue, count, reachable) ==
    FilteredScan("searchMessagesByHeaderBase",
                 HeaderFilter("headerBase", headerKey, headerValue), count, reachable)

RECURSIVE ScanSizesStopAtGap(_, _)
ScanSizesStopAtGap(seq, lastSeq) ==
    IF seq > lastSeq \/ seq \notin DOMAIN msgs THEN <<>>
    ELSE <<msgs[seq].size>> \o ScanSizesStopAtGap(seq + 1, lastSeq)

\* for (seq = firstSeq; seq <= lastSeq; seq++) sizes.push(...), skipping the
\* sequences whose fetch fails
RECURSIVE ScanSizes(_, _)
ScanSizes(seq, lastSeq) ==
    IF seq > lastSeq THEN <<>>
    ELSE (IF seq \in DOMAIN msgs THEN <<msgs[seq].size>> ELSE <<>>)
         \o ScanSizes(seq + 1, lastSeq)

messageSizeDistribution(count, reachable) ==
    /\ Runnable
    /\ UNCHANGED <<process, tasks>>
    /\ UNCHANGED brokerVars
    /\ calls' = <<>>
    /\ result' =
         IF ~reachable THEN Threw("messageSizeDistribution")
         ELSE IF ~streamExists THEN ErrorResult("messageSizeDistribution")
         ELSE [tool |-> "messageSizeDistribution", outcome |-> "ok", count |-> count,
               lastSeq |-> last_seq,
               report |-> [sizes |-> ScanSizes(RecentFirstSeq(last_seq, count), last_seq)]]

(***************************************************************************)
(* Specifications                                                          *)
(***************************************************************************)
NoBlobs == [n \in {} |-> None]

Force == {None, Some(FALSE), Some(TRUE)}

\* subject lists of at most MaxSubjectArgs entries, repetitions included
SubjectArgLists == UNION {[1..n -> SubjectFilters] : n \in 0..MaxSubjectArgs}

ConsumerSets ==
    {NoConsumers,
     [c \in {"c1"} |-> NewConsumerInfo(ConsumerConfig(c, None))],
     [c \in {"c1", "c2"} |-> NewConsumerInfo(ConsumerConfig(c, Some(10)))]}

\* stream administration: one stream, its descriptor and its consumers
Init ==
    /\ streamExists = TRUE
    /\ config \in {DefaultConfig, SparseConfig}
    /\ msgs = NoMsgs
    /\ last_seq = 0
    /\ consumers \in ConsumerSets
    /\ now = 0
    /\ inflight = <<>>
    /\ blobs = NoBlobs
    /\ calls = <<>>
    /\ result = Idle
    /\ process = StdioProcess
    /\ tasks = NoTasks

Next ==
    \/ \E subjects \in SubjectArgLists, reachable, accepted \in BOOLEAN :
            addSubjects(subjects, reachable, accepted)
    \/ \E args \in UpdateArgs, reachable, accepted \in BOOLEAN :
            updateStreamConfig(args, reachable, accepted)
    \/ \E force \in Force, reachable \in BOOLEAN :
            deleteStream(force, reachable)

Spec == Init /\ [][Next]_vars

\* consumer diagnostics over the replies the broker may give
ConsumerInfos ==
    [delivered : {None} \cup {Some([stream_seq |-> n, consumer_seq |-> n]) : n \in LagSeqs},
     num_pending : {0, 9},
     num_waiting : {0, 1},
     num_redelivered : {0, 2},
     config : {ConsumerConfig("c1", m) : m \in {None, Some(10)}}]

InitConsumer ==
    /\ streamExists = TRUE
    /\ config = DefaultConfig
    /\ msgs = NoMsgs
    /\ last_seq \in LagSeqs
    /\ consumers \in {[c \in {"c1"} |-> info] : info \in ConsumerInfos}
    /\ now = 0
    /\ inflight = <<>>
    /\ blobs = NoBlobs
    /\ calls = <<>>
    /\ result = Idle
    /\ process = StdioProcess
    /\ tasks = NoTasks

NextConsumer ==
    \/ \E consumer \in ConsumerNames, reachable \in BOOLEAN :
            diagnoseConsumer(consumer, reachable)
    \/ \E consumer \in ConsumerNames, reachable \in BOOLEAN :
            diagnoseConsumerTool(consumer, reachable)
    \/ \E consumer \in ConsumerNames, reachable \in BOOLEAN :
            checkConsumerLag(consumer, reachable)

SpecConsumer == InitConsumer /\ [][NextConsumer]_vars

\* messages of the stream: publishing, listing and purging
PublishSubjects == {OrdersCreated, OrdersShipped, Audit}

PurgeArgs ==
    [subject : {None, Some(OrdersCreated)},
     sequence : {None, Some(2)},
     keep : {None, Some(0), Some(1), Some(2)},
     olderThan : {None, Some(1)}]

InitMsgs ==
    /\ streamExists = TRUE
    /\ config \in {DefaultConfig, [DefaultConfig EXCEPT !.deny_purge = Some(TRUE)]}
    /\ msgs = NoMsgs
    /\ last_seq = 0
    /\ consumers = NoConsumers
    /\ now = 0
    /\ inflight = <<>>
    /\ blobs = NoBlobs
    /\ calls = <<>>
    /\ result = Idle
    /\ process = StdioProcess
    /\ tasks = NoTasks

NextMsgs ==
    \/ \E subject \in PublishSubjects, reachable \in BOOLEAN : publish(subject, reachable)
    \/ \E i \in 1..MaxInflight : BrokerIngest(i)
    \/ Tick
    \/ \E count \in 1..MaxCount, reachable \in BOOLEAN : listRecentMessages(count, reachable)
    \/ \E args \in PurgeArgs, reachable \in BOOLEAN : purgeStream(args, reachable)

SpecMsgs == InitMsgs /\ [][NextMsgs]_vars

\* backup and restore against a bucket that already holds three blobs
ForeignBlobs ==
    LET c1 == <<[name |-> "c1", config |-> ConsumerConfig("c1", Some(10))]>>
        st == [messages |-> 0, last_seq |-> 0]
    IN  [n \in {<<StreamName, -1>>, <<StreamName, -2>>, <<StreamName, -3>>} |->
            IF n = <<StreamName, -1>> THEN BackupOf(SparseConfig, st, c1, -1)
            ELSE IF n = <<StreamName, -2>>
            THEN [BackupOf(DefaultConfig, st, c1, -2) EXCEPT !.version = Some("2.0")]
            ELSE [BackupOf(DefaultConfig, st, c1, -3) EXCEPT !.version = None]]

BackupNames == {None, Some(<<StreamName, -9>>)} \cup {Some(n) : n \in DOMAIN ForeignBlobs}
                    \cup {Some(BackupFileName(StreamName, 0))}

InitBackup ==
    /\ streamExists = TRUE
    /\ config = DefaultConfig
    /\ msgs = NoMsgs
    /\ last_seq = 0
    /\ consumers \in ConsumerSets
    /\ now = 0
    /\ inflight = <<>>
    /\ blobs = ForeignBlobs
    /\ calls = <<>>
    /\ result = Idle
    /\ process = StdioProcess
    /\ tasks = NoTasks

NextBackup ==
    \/ \E action \in {"backup", "restore"}, backupName \in BackupNames,
          gcsAvailable, reachable, bucketExists, accepted, consumerAccepted \in BOOLEAN :
            backupStream(action, backupName, gcsAvailable, reachable, bucketExists,
                         accepted, consumerAccepted)
    \/ \E force \in Force, reachable \in BOOLEAN : deleteStream(force, reachable)
    \/ \E reachable, accepted \in BOOLEAN : addSubjects(<<Audit>>, reachable, accepted)

SpecBackup == InitBackup /\ [][NextBackup]_vars

\* bucket contents for listBackups: dated names of two instants, a second
\* name of one of the instants, and a name of backupStream's making
ListedNames ==
    {DatedName(StreamName, 1, "date"), DatedName(StreamName, 3, "date"),
     DatedName(StreamName, 3, "datetime"), BackupFileName(StreamName, 2)}

Buckets ==
    {[n \in S |-> BackupOf(DefaultConfig, [messages |-> 0, last_seq |-> 0], <<>>, n[2])] :
        S \in SUBSET ListedNames}

\* targetDate: absent, a date string, or a string Date does not parse
TargetDates == {None, Some(Some(2)), Some(Some(3)), Some(NaN)}

InitListing ==
    /\ streamExists = TRUE
    /\ config = DefaultConfig
    /\ msgs = NoMsgs
    /\ last_seq = 0
    /\ consumers = NoConsumers
    /\ now = 0
    /\ inflight = <<>>
    /\ blobs \in Buckets
    /\ calls = <<>>
    /\ result = Idle
    /\ process = StdioProcess
    /\ tasks = NoTasks

NextListing ==
    \E files \in Orderings(DOMAIN blobs) :
        \E backups \in SortOutcomes(files) :
            \E targetDate \in TargetDates, gcsAvailable, listed \in BOOLEAN :
                listBackups(targetDate, gcsAvailable, listed, files, backups)

SpecListing == InitListing /\ [][NextListing]_vars


\* call-time options and environments: each setting absent or present, the
\* environment's token also present but empty
ConnectOptions ==
    [name : {None}, servers : {None, Some("nats://option:4222")},
     token : {None, Some("optionToken")}, credsFile : {None, Some("option.creds")},
     creds : {None}]

Environments ==
    [NATS_SERVER_URL : {None, Some("nats://env:4222")}, NATS_CONNECTION_NAME : {Some("mcp")},
     NATS_TOKEN : {None, Some(""), Some("envToken")}, NATS_CREDS_FILE : {None, Some("env.creds")},
     NATS_CREDS : {None, Some("envCredsBlob")}]

InitConnect ==
    /\ streamExists = TRUE
    /\ config = DefaultConfig
    /\ msgs = NoMsgs
    /\ last_seq = 0
    /\ consumers = NoConsumers
    /\ now = 0
    /\ inflight = <<>>
    /\ blobs = NoBlobs
    /\ calls = <<>>
    /\ result = Idle
    /\ process = StdioProcess
    /\ tasks = NoTasks

NextConnect ==
    \/ \E options \in ConnectOptions, env \in Environments, fileReadable, reachable \in BOOLEAN :
          connectNats(options, env, fileReadable, reachable)
    \/ \E options \in ConnectOptions, env \in Environments, fileReadable, reachable \in BOOLEAN :
          connectNatsNoDefault(options, env, fileReadable, reachable)
    \/ \E env \in Environments, reachable \in BOOLEAN : connectDirect(env, reachable)
    \/ \E env \in Environments, reachable \in BOOLEAN : serverInfo(env, reachable)

SpecConnect == InitConnect /\ [][NextConnect]_vars


\* main(): the process picks its transport and starts serving, or exits
main(connected) ==
    /\ process.status = "starting"
    /\ process' = StartTransport(process.MCP_TRANSPORT, process.express, connected)
    /\ UNCHANGED brokerVars
    /\ UNCHANGED tasks
    /\ calls' = <<>>
    /\ result' = Idle

\* values of MCP_TRANSPORT: unset, the network listener, anything else
TransportSettings == {None, Some("sse"), Some("stdio")}

InitServer ==
    /\ streamExists = TRUE
    /\ config \in {DefaultConfig, SparseConfig}
    /\ msgs = NoMsgs
    /\ last_seq = 0
    /\ consumers \in ConsumerSets
    /\ now = 0
    /\ inflight = <<>>
    /\ blobs = NoBlobs
    /\ calls = <<>>
    /\ result = Idle
    /\ process \in {Process("starting", "none", None, m, e) :
                       m \in TransportSettings, e \in BOOLEAN}
    /\ tasks = NoTasks

NextServer ==
    \/ \E connected \in BOOLEAN : main(connected)
    \/ \E force \in Force, reachable \in BOOLEAN : deleteStream(force, reachable)
    \/ \E args \in UpdateArgs, reachable, accepted \in BOOLEAN :
          updateStreamConfig(args, reachable, accepted)

SpecServer == InitServer /\ [][NextServer]_vars


\* the duration argument of monitorStreamHealth, in clock ticks
Durations == {1}

InitMonitor ==
    /\ streamExists = TRUE
    /\ config = DefaultConfig
    /\ msgs = NoMsgs
    /\ last_seq = 0
    /\ consumers = [c \in {"c1"} |-> NewConsumerInfo(ConsumerConfig(c, None))]
    /\ now = 0
    /\ inflight = <<>>
    /\ blobs = NoBlobs
    /\ calls = <<>>
    /\ result = Idle
    /\ process = StdioProcess
    /\ tasks = NoTasks

NextMonitor ==
    \/ \E t \in TaskIds, duration \in Durations, reachable \in BOOLEAN :
          monitorStart(t, duration, reachable)
    \/ \E t \in TaskIds : monitorFinalInfo(t)
    \/ \E t \in TaskIds : monitorListConsumers(t)
    \/ \E t \in TaskIds, c \in ConsumerNames : monitorConsumerInfo(t, c)
    \/ \E reachable \in BOOLEAN : publish(OrdersCreated, reachable)
    \/ \E i \in 1..MaxInflight : BrokerIngest(i)
    \/ \E c \in ConsumerNames : Deliver(c)
    \/ Tick
    \/ \E reachable \in BOOLEAN : listRecentMessages(1, reachable)

SpecMonitor == InitMonitor /\ [][NextMonitor]_vars


\* subject lists handed to the concurrent addSubjects invocations
RaceSubjects == {<<Audit>>, <<OrdersShipped>>, <<OrdersCreated, Audit>>}

InitRace ==
    /\ streamExists = TRUE
    /\ config \in {DefaultConfig, SparseConfig}
    /\ msgs = NoMsgs
    /\ last_seq = 0
    /\ consumers \in ConsumerSets
    /\ now = 0
    /\ inflight = <<>>
    /\ blobs = NoBlobs
    /\ calls = <<>>
    /\ result = Idle
    /\ process = StdioProcess
    /\ tasks = NoTasks

NextRace ==
    \/ \E t \in TaskIds, subjects \in RaceSubjects, reachable \in BOOLEAN :
          addSubjectsInfo(t, subjects, reachable)
    \/ \E t \in TaskIds, accepted \in BOOLEAN : addSubjectsUpdate(t, accepted)
    \/ \E t \in TaskIds, force \in Force, reachable \in BOOLEAN :
          deleteStreamInfo(t, force, reachable)
    \/ \E t \in TaskIds : deleteStreamDelete(t)
    \/ \E c \in ConsumerNames : CreateConsumer(c)

SpecRace == InitRace /\ [][NextRace]_vars


\* last sequence numbers of streams shorter than the scan window
ScanLastSeqs == 0..MaxSeq

\* a message with a trace header and data, and one with neither
MsgKinds ==
    {[subject |-> OrdersCreated, time |-> 0,
      header |-> Some([k \in {"trace"} |-> "abc"]), size |-> 5],
     [subject |-> OrdersShipped, time |-> 0, header |-> None, size |-> 0]}

\* subject filters: a full subject, a wildcard, a single token, a leading wildcard
ScanSubjects ==
    {Text(OrdersCreated), Text(OrdersAny), Text(<<"orders">>), Text(<<"*", "shipped">>)}

HeaderKeys == {"trace", "span"}

HeaderValues == {"abc", "xyz", ""}

InitScan ==
    /\ streamExists = TRUE
    /\ config = DefaultConfig
    /\ last_seq \in ScanLastSeqs
    /\ \E S \in SUBSET (1..last_seq) : msgs \in [S -> MsgKinds]
    /\ consumers = NoConsumers
    /\ now = 0
    /\ inflight = <<>>
    /\ blobs = NoBlobs
    /\ calls = <<>>
    /\ result = Idle
    /\ process = StdioProcess
    /\ tasks = NoTasks

NextScan ==
    \/ \E subject \in ScanSubjects, count \in 1..MaxCount, reachable \in BOOLEAN :
          listMessagesBySubject(subject, count, reachable)
    \/ \E subject \in ScanSubjects, count \in 1..MaxCount, reachable \in BOOLEAN :
          listMessagesBySubjectBase(subject, count, reachable)
    \/ \E headerKey \in HeaderKeys, headerValue \in HeaderValues, count \in 1..MaxCount,
          reachable \in BOOLEAN :
          searchMessagesByHeader(headerKey, headerValue, count, reachable)
    \/ \E headerKey \in HeaderKeys, headerValue \in HeaderValues, count \in 1..MaxCount,
          reachable \in BOOLEAN :
          searchMessagesByHeaderBase(headerKey, headerValue, count, reachable)
    \/ \E count \in 1..MaxCount, reachable \in BOOLEAN : messageSizeDistribution(count, reachable)
    \/ \E count \in 1..MaxCount, reachable \in BOOLEAN : listRecentMessages(count, reachable)

SpecScan == InitScan /\ [][NextScan]_vars

\* last sequence numbers of streams longer than the scan window
WindowLastSeqs == {ScanWindow + 1, ScanWindow + MaxSeq}

\* the sequences a long stream still stores: the two around the window's
\* lower end, or the first and the last
StoredSets(last) == {{last - ScanWindow, last - ScanWindow + 1}, {1, last}}

WindowSubjects == {Text(OrdersCreated), Text(OrdersAny)}

InitWindow ==
    /\ streamExists = TRUE
    /\ config = DefaultConfig
    /\ last_seq \in WindowLastSeqs
    /\ \E S \in StoredSets(last_seq) : msgs \in [S -> MsgKinds]
    /\ consumers = NoConsumers
    /\ now = 0
    /\ inflight = <<>>
    /\ blobs = NoBlobs
    /\ calls = <<>>
    /\ result = Idle
    /\ process = StdioProcess
    /\ tasks = NoTasks

NextWindow ==
    \/ \E subject \in WindowSubjects, count \in 1..MaxCount, reachable \in BOOLEAN :
          listMessagesBySubject(subject, count, reachable)
    \/ \E subject \in WindowSubjects, count \in 1..MaxCount, reachable \in BOOLEAN :
          listMessagesBySubjectBase(subject, count, reachable)
    \/ \E count \in 1..MaxCount, reachable \in BOOLEAN :
          searchMessagesByHeader("trace", "abc", count, reachable)
    \/ \E count \in 1..MaxCount, reachable \in BOOLEAN :
          searchMessagesByHeaderBase("trace", "abc", count, reachable)

SpecWindow == InitWindow /\ [][NextWindow]_vars


\* names of streams that may be named as a source
SourceStreams == {"archive", "mirror", "audit"}

InitSources ==
    /\ streamExists \in BOOLEAN
    /\ config \in {DefaultConfig, [DefaultConfig EXCEPT !.sources = Some(<<>>)]}
    /\ msgs = NoMsgs
    /\ last_seq = 0
    /\ consumers = NoConsumers
    /\ now = 0
    /\ inflight = <<>>
    /\ blobs = NoBlobs
    /\ calls = <<>>
    /\ result = Idle
    /\ process = StdioProcess
    /\ tasks = NoTasks

NextSources ==
    \/ \E sourceStream \in SourceStreams, sourceExists, reachable, accepted \in BOOLEAN :
          addStreamSource(sourceStream, sourceExists, reachable, accepted)
    \/ \E sourceStream \in SourceStreams, reachable, accepted \in BOOLEAN :
          removeStreamSource(sourceStream, reachable, accepted)

SpecSources == InitSources /\ [][NextSources]_vars


\* argument objects with any mix of supplied limits and flags, the falsy
\* values 0 and false among them
UpdateFieldArgs ==
    {[NoUpdateArgs EXCEPT !.maxBytes = maxBytes, !.maxMsgs = maxMsgs, !.storage = storage,
                          !.denyDelete = denyDelete] :
        maxBytes \in {None, Some(0)}, maxMsgs \in {None, Some(0), Some(5)},
        storage \in {None, Some("memory")}, denyDelete \in {None, Some(FALSE), Some(TRUE)}}

InitUpdate ==
    /\ streamExists = TRUE
    /\ config \in {[DefaultConfig EXCEPT !.deny_delete = Some(TRUE)],
                   [SparseConfig EXCEPT !.sources = Some(<<[name |-> "archive"]>>)]}
    /\ msgs = NoMsgs
    /\ last_seq = 0
    /\ consumers = NoConsumers
    /\ now = 0
    /\ inflight = <<>>
    /\ blobs = NoBlobs
    /\ calls = <<>>
    /\ result = Idle
    /\ process = StdioProcess
    /\ tasks = NoTasks

NextUpdate ==
    \E args \in UpdateFieldArgs, reachable, accepted \in BOOLEAN :
        updateStreamConfig(args, reachable, accepted)

SpecUpdate == InitUpdate /\ [][NextUpdate]_vars


(***************************************************************************)
(* Properties                                                              *)
(***************************************************************************)
\* backups written by backupStream at successive instants, then listed
InitBackupListing ==
    /\ streamExists = TRUE
    /\ config = DefaultConfig
    /\ msgs = NoMsgs
    /\ last_seq = 0
    /\ consumers \in ConsumerSets
    /\ now = 0
    /\ inflight = <<>>
    /\ blobs = NoBlobs
    /\ calls = <<>>
    /\ result = Idle
    /\ process = StdioProcess
    /\ tasks = NoTasks

NextBackupListing ==
    \/ \E gcsAvailable, reachable, bucketExists \in BOOLEAN :
          backupStream("backup", None, gcsAvailable, reachable, bucketExists, TRUE, TRUE)
    \/ Tick
    \/ \E files \in Orderings(DOMAIN blobs) :
          \E backups \in SortOutcomes(files) :
              \E targetDate \in TargetDates, gcsAvailable, listed \in BOOLEAN :
                  listBackups(targetDate, gcsAvailable, listed, files, backups)

SpecBackupListing == InitBackupListing /\ [][NextBackupListing]_vars

\* a limit of the stream descriptor: left out, 0, -1 (unlimited) or set
ByteLimits == {None, Some(0), Some(0 - 1), Some(10)}

MsgLimits == {None, Some(0), Some(0 - 1), Some(MaxSeq)}

\* stored messages of 4 and of 5 bytes
SizedMsgs ==
    {[subject |-> OrdersCreated, time |-> 0, header |-> None, size |-> 4],
     [subject |-> OrdersCreated, time |-> 0, header |-> None, size |-> 5]}

\* streams with and without limits, filled to different levels
InitLimits ==
    /\ streamExists = TRUE
    /\ \E maxBytes \in ByteLimits, maxMsgs \in MsgLimits :
          config = [DefaultConfig EXCEPT !.max_bytes = maxBytes, !.max_msgs = maxMsgs]
    /\ last_seq \in 0..MaxSeq
    /\ msgs \in [1..last_seq -> SizedMsgs]
    /\ consumers \in {NoConsumers, [c \in {"c1"} |-> NewConsumerInfo(ConsumerConfig(c, None))]}
    /\ now = 0
    /\ inflight = <<>>
    /\ blobs = NoBlobs
    /\ calls = <<>>
    /\ result = Idle
    /\ process = StdioProcess
    /\ tasks = NoTasks

NextLimits ==
    \/ \E reachable \in BOOLEAN : diagnoseStream(reachable)
    \/ \E duration \in Durations, reachable \in BOOLEAN : monitorStart("t1", duration, reachable)
    \/ monitorFinalInfo("t1")
    \/ monitorListConsumers("t1")
    \/ \E c \in ConsumerNames : monitorConsumerInfo("t1", c)
    \/ Tick

SpecLimits == InitLimits /\ [][NextLimits]_vars

\* clients of the SSE server, each named by the session its GET /sse opens
Sessions == {"s1", "s2", "s3", "s4"}

InitSse ==
    /\ streamExists = TRUE
    /\ config = DefaultConfig
    /\ msgs = NoMsgs
    /\ last_seq = 0
    /\ consumers = NoConsumers
    /\ now = 0
    /\ inflight = <<>>
    /\ blobs = NoBlobs
    /\ calls = <<>>
    /\ result = Idle
    /\ process \in {Process("starting", "none", None, m, e) :
                        m \in TransportSettings, e \in BOOLEAN}
    /\ tasks = NoTasks

NextSse ==
    \/ \E connected \in BOOLEAN : main(connected)
    \/ \E session \in Sessions : getSse(session)
    \/ \E session \in Sessions : postMessages(session)

SpecSse == InitSse /\ [][NextSse]_vars

NoDuplicates(list) == \A i, j \in 1..Len(list) : list[i] = list[j] => i = j

\* the lag section 3 of the specification defines, missing delivery data read as 0
SpecifiedLag(lastSeq, status) ==
    Max(0, lastSeq - safeNumber(deliveredStreamSeq(status), 0))

\* C1: every report of diagnoseConsumer, in either registration of the tool,
\* shows the lag max(0, last_seq - delivered.stream_seq), which is never negative.
C1_DiagnoseConsumerLagClamped ==
    (result.tool \in {"diagnoseConsumer", "diagnoseConsumerTool"} /\ result.outcome = "ok")
        => /\ result.report.lag = Some(SpecifiedLag(last_seq, consumers[result.consumer]))
           /\ Get(result.report.lag) >= 0

C3_RestoreRejectsVersion ==
    (/\ result.tool = "backupStream"
     /\ result.action = "restore"
     /\ result.outcome # "threw"
     /\ IsSome(result.backupName)
     /\ Get(result.backupName) \in DOMAIN blobs
     /\ blobs[Get(result.backupName)].version # Some("1.0"))
        => /\ result.outcome = "error"
           /\ calls = <<>>

C3_Witness ==
    /\ result.tool = "backupStream"
    /\ result.action = "restore"
    /\ result.outcome = "error"
    /\ result.version = None
    /\ result.backupName = Some(<<StreamName, -3>>)
    /\ streamExists

\* C4: after a successful addSubjects the subject list has no duplicate and
\* holds exactly the old subjects and the added ones; when every added subject
\* was already present the list is unchanged, and the same call applied again
\* changes nothing.
C4_AddSubjectsIdempotent ==
    [][(result'.tool = "addSubjects" /\ result'.outcome = "ok")
       => /\ NoDuplicates(config'.subjects)
          /\ SeqToSet(config'.subjects)
                = SeqToSet(config.subjects) \cup SeqToSet(result'.subjects)
          /\ (SeqToSet(result'.subjects) \subseteq SeqToSet(config.subjects)
                => config'.subjects = config.subjects)
          /\ ((result.tool = "addSubjects" /\ result.outcome = "ok"
                 /\ result.subjects = result'.subjects)
                => config'.subjects = config.subjects)]_vars

C4_Witness ==
    /\ result.tool = "addSubjects"
    /\ result.outcome = "ok"
    /\ Len(result.subjects) = 2
    /\ result.subjects[1] = result.subjects[2]
    /\ result.subjects[1] \in SeqToSet(DefaultConfig.subjects)
    /\ config.subjects = DefaultConfig.subjects

\* C5: updateStreamConfig called with the stream name only sends the broker
\* the existing descriptor, and the descriptor after the call equals the
\* descriptor before it.
C5_UpdateWithoutFieldsIsIdentity ==
    [][(/\ result'.tool = "updateStreamConfig"
        /\ result'.outcome = "ok"
        /\ result'.args = NoUpdateArgs)
       => /\ calls' = <<[op |-> "streams.update", config |-> Some(config)]>>
          /\ config' = config]_vars

C5_Witness ==
    /\ result.tool = "updateStreamConfig"
    /\ result.outcome = "ok"
    /\ result.args = NoUpdateArgs
    /\ config = SparseConfig
    /\ Len(calls) = 1

\* the stored messages a purge with these arguments is scoped to
InPurgeScope(args) ==
    {s \in DOMAIN msgs :
        ~IsSome(args.subject) \/ SubjectCaptured(msgs[s].subject, Get(args.subject))}

\* C6 as stated: after a successful purgeStream with keep = N the stream holds
\* at most N messages.
C6_PurgeKeepLeavesAtMostN ==
    (result.tool = "purgeStream" /\ result.outcome = "ok" /\ IsSome(result.args.keep))
        => messages <= Get(result.args.keep)

\* C6 as amended: after a successful purgeStream with keep = N, at most N of
\* the messages matching the subject filter remain, which are all the
\* messages of the stream when no subject filter is supplied.
C6_PurgeKeepLeavesAtMostNInScope ==
    (result.tool = "purgeStream" /\ result.outcome = "ok" /\ IsSome(result.args.keep))
        => /\ Cardinality(InPurgeScope(result.args)) <= Get(result.args.keep)
           /\ (~IsSome(result.args.subject) => messages <= Get(result.args.keep))

C6_Witness ==
    /\ result.tool = "purgeStream"
    /\ result.outcome = "ok"
    /\ result.args.keep = Some(1)
    /\ result.args.subject = None
    /\ result.report.purged >= 1
    /\ messages = 1

\* C7: a successful purgeStream with olderThan = D removes no message younger
\* than D.
C7_PurgeOlderThanKeepsYounger ==
    [][(/\ result'.tool = "purgeStream"
        /\ result'.outcome = "ok"
        /\ IsSome(result'.args.olderThan))
       => \A s \in DOMAIN msgs :
              (now - msgs[s].time < Get(result'.args.olderThan)) => s \in DOMAIN msgs']_vars

\* C8: no handler invocation ends by throwing: every failure, a failed connect
\* included, comes back as a result with isError = true.
C8_NoHandlerThrows == result.outcome # "threw"

\* C9: a listRecentMessages(orders, 1) that follows a successful publish to
\* orders.created, a subject the stream captures, returns exactly one entry,
\* whose subject is orders.created.
C9_PublishedMessageIsListed ==
    [][(/\ result.tool = "publish"
        /\ result.outcome = "ok"
        /\ result.subject = OrdersCreated
        /\ StreamCaptures(OrdersCreated)
        /\ result'.tool = "listRecentMessages"
        /\ result'.outcome = "ok"
        /\ result'.count = 1)
       => /\ Len(result'.report.messages) = 1
          /\ result'.report.messages[1].subject = OrdersCreated]_vars

\* C10: checkConsumerLag reports the lag last_seq - delivered.stream_seq of the
\* consumer and flags it as high when it exceeds 1000.
C10_CheckConsumerLagReportsLag ==
    (result.tool = "checkConsumerLag" /\ result.outcome = "ok"
        /\ IsSome(consumers[result.consumer].delivered))
        => LET lag == last_seq - Get(consumers[result.consumer].delivered).stream_seq
           IN  /\ result.report.lag = Some(lag)
               /\ (lag > LagThreshold => "high lag" \in result.report.issues)

\* the backups of the bucket that lie at the same distance from the target,
\* no other backup lying closer
TiedBackups(target) ==
    {pair \in (DOMAIN blobs) \X (DOMAIN blobs) :
        /\ pair[1] # pair[2]
        /\ TimeDiff(ParseTimestamp(pair[1]), target) = TimeDiff(ParseTimestamp(pair[2]), target)
        /\ \A n \in DOMAIN blobs :
              ~LessThan(TimeDiff(ParseTimestamp(n), target),
                        TimeDiff(ParseTimestamp(pair[1]), target))}

\* C11: two listBackups invocations with the same target date on the same
\* bucket, whose names all carry a date and two of which are equidistant from
\* the target, select the same backup whatever the order of the listing.
C11_ListBackupsTieIsDeterministic ==
    [][(/\ result.tool = "listBackups"
        /\ result'.tool = "listBackups"
        /\ result.outcome = "ok"
        /\ result'.outcome = "ok"
        /\ result'.targetDate = result.targetDate
        /\ IsSome(result.targetDate)
        /\ IsSome(Get(result.targetDate))
        /\ \A n \in DOMAIN blobs : IsSome(ParseTimestamp(n))
        /\ TiedBackups(Get(result.targetDate)) # {})
            => result'.closest = result.closest]_vars

\* the authentication mechanisms a connection configuration carries
ActiveMechanisms(connectOpts) ==
         (IF IsSome(connectOpts.token) THEN {"token"} ELSE {})
    \cup (IF IsSome(connectOpts.authenticator)
          THEN {Get(connectOpts.authenticator)[1]} ELSE {})

\* C12: the connection options connectNats (either definition) hands to
\* connect carry at most one authentication mechanism among token, creds
\* file and creds blob.
C12_AtMostOneAuthMechanism ==
    (/\ result.tool \in {"connectNats", "connectNatsNoDefault"}
     /\ calls # <<>>)
        => Cardinality(ActiveMechanisms(Get(calls[1].config))) <= 1

\* the setting resolved in priority order: call-time option, environment
\* variable, default
Resolved(option, envValue, default) ==
    IF TruthyStr(option) THEN option
    ELSE IF TruthyStr(envValue) THEN envValue
    ELSE default

\* C13: every connection a handler opens has a defined server URL, resolved
\* as option, then environment, then nats://localhost:4222, and carries the
\* token and the credentials that the options or the environment configure.
C13_HandlerConnectionConfigResolved ==
    calls # <<>> /\ calls[1].op = "connect"
        => LET used == Get(calls[1].config)
               token == Resolved(result.options.token, result.env.NATS_TOKEN, None)
               creds == Resolved(result.options.creds, result.env.NATS_CREDS, None)
               credsFile == Resolved(result.options.credsFile, result.env.NATS_CREDS_FILE, None)
           IN  /\ used.servers = Resolved(result.options.servers, result.env.NATS_SERVER_URL,
                                          Some(DefaultServerUrl))
               /\ IsSome(token) => used.token = token
               /\ (IsSome(creds) \/ IsSome(credsFile)) => IsSome(used.authenticator)

\* C14: a process started with MCP_TRANSPORT=sse and without express has,
\* once main has run, exited with status 1; it serves on no transport and no
\* handler has run in it.
C14_SseWithoutExpressExits ==
    (/\ process.MCP_TRANSPORT = Some("sse")
     /\ ~process.express
     /\ process.status # "starting")
        => /\ process.status = "exited"
           /\ process.exitCode = Some(1)
           /\ process.transport = "none"
           /\ result = Idle

C14_Witness ==
    /\ process.MCP_TRANSPORT = Some("sse")
    /\ ~process.express
    /\ process.status = "exited"
    /\ process.exitCode = Some(1)

\* some monitorStreamHealth invocation is suspended in its sleep
MonitorSleeping == \E t \in TaskIds : tasks[t].pc = "sleeping"

C18_MonitorLagNonNegative ==
    (result.tool = "monitorStreamHealth" /\ result.outcome = "ok")
        => \A c \in DOMAIN result.report.lag : result.report.lag[c] >= 0

\* C16: a successful listRecentMessages(stream, N) on a stream holding at
\* least N messages returns exactly N entries, the N stored messages with the
\* highest sequence numbers.
C16_ListReturnsCountMessages ==
    (/\ result.tool = "listRecentMessages"
     /\ result.outcome = "ok"
     /\ messages >= result.count)
        => /\ Len(result.report.messages) = result.count
           /\ \A i \in 1..Len(result.report.messages) :
                 Cardinality({s \in DOMAIN msgs : s > result.report.messages[i].sequence})
                     < result.count

\* C17: when the addSubjects invocations of both tasks have returned success
\* and the stream exists, the stream's subjects hold the subjects of both.
C17_ConcurrentAddSubjectsKeepBoth ==
    (/\ streamExists
     /\ \A t \in TaskIds : /\ tasks[t].tool = "addSubjects"
                           /\ tasks[t].pc = "returned"
                           /\ tasks[t].outcome = "ok")
        => \A t \in TaskIds : SeqToSet(tasks[t].subjects) \subseteq SeqToSet(config.subjects)

\* C19: a deleteStream invocation without force whose delete request removes
\* the stream finds no consumer on the stream at that moment.
C19_UnforcedDeleteFindsNoConsumer ==
    [][\A t \in TaskIds :
          (/\ tasks[t].tool = "deleteStream"
           /\ tasks[t].pc = "deleting"
           /\ tasks'[t].pc = "returned"
           /\ ~TruthyBool(tasks[t].force)
           /\ streamExists
           /\ ~streamExists')
              => consumer_count = 0]_vars

\* C20: a restore that finds the stream present issues streams.update first
\* and no streams.add at all, also when the update is rejected; a restore
\* that finds no stream issues streams.add and no streams.update; and each
\* consumers.update directly follows the consumers.add of the same consumer.
C20_RestoreCreatesOnlyWhenAbsent ==
    [][(/\ result'.tool = "backupStream"
        /\ result'.action = "restore"
        /\ calls' # <<>>)
          => /\ streamExists
                  => /\ calls'[1].op = "streams.update"
                     /\ \A i \in 1..Len(calls') : calls'[i].op # "streams.add"
             /\ ~streamExists
                  => /\ calls'[1].op = "streams.add"
                     /\ \A i \in 1..Len(calls') : calls'[i].op # "streams.update"
             /\ \A i \in 1..Len(calls') :
                   calls'[i].op = "consumers.update"
                      => i > 1 /\ calls'[i - 1].op = "consumers.add"]_vars

\* C21: an addSubjects or deleteStream invocation that has returned its
\* result, success or error, holds no open broker connection.
C21_ReturnedHandlerHoldsNoConnection ==
    \A t \in TaskIds :
        (tasks[t].tool \in {"addSubjects", "deleteStream"} /\ tasks[t].pc = "returned")
            => tasks[t].nc # "open"

\* the result is that of one of the four filtered scans
FilteredScanReturned ==
    /\ result.outcome = "ok"
    /\ result.tool \in {"listMessagesBySubject", "listMessagesBySubjectBase",
                        "searchMessagesByHeader", "searchMessagesByHeaderBase"}

\* C22: a filtered scan fetches only sequences of
\* [max(1, last_seq - 499), last_seq], in descending order without repeats
\* and at most 500 of them, fetches nothing once count matching messages are
\* collected, and returns at most count messages.
C22_FilteredScanBounded ==
    FilteredScanReturned
        => /\ \A i \in 1..Len(calls) :
                 /\ calls[i].op = "streams.getMessage"
                 /\ Get(calls[i].config) >= 1
                 /\ Get(calls[i].config) >= result.lastSeq - 499
                 /\ Get(calls[i].config) <= result.lastSeq
           /\ \A i \in 1..(Len(calls) - 1) : Get(calls[i].config) > Get(calls[i + 1].config)
           /\ Len(calls) <= 500
           /\ Len(result.report.messages) <= result.count
           /\ \A i \in 1..Len(calls) :
                 Cardinality({k \in 1..Len(result.report.messages) :
                                 result.report.messages[k].sequence > Get(calls[i].config)})
                     < result.count

\* C22 witness: a scan of a stream longer than the window ran down to the
\* window's lower end, past which a message is stored, and found one match.
C22_Witness ==
    /\ FilteredScanReturned
    /\ result.lastSeq > 500
    /\ Len(calls) = 500
    /\ Len(result.report.messages) = 1
    /\ \E s \in DOMAIN msgs : s < result.lastSeq - 499

\* the stored sequences of first..last, ascending
StoredIn(first, last) ==
    SelectSeq([i \in 1..(last - first + 1) |-> first + i - 1], LAMBDA q : q \in DOMAIN msgs)

\* the stored sequences of the filtered scan's range whose message matches
MatchingInWindow ==
    {q \in DOMAIN msgs : /\ q >= Max(1, result.lastSeq - 499)
                         /\ q <= result.lastSeq
                         /\ Matched(result.filter, msgs[q])}

\* the result of a scanning tool whose connection and stream lookup succeeded
ScanReturned(tools) == result.tool \in tools /\ result.outcome # "threw"

\* what C23 says of listRecentMessages and messageSizeDistribution: not an
\* error, and one entry for each stored sequence of the range, in order
UnfilteredScanSkipsFailures ==
    /\ ScanReturned({"listRecentMessages"})
          => /\ result.outcome = "ok"
             /\ LET stored == StoredIn(Max(1, last_seq - result.count + 1), last_seq)
                IN  /\ Len(result.report.messages) = Len(stored)
                    /\ \A i \in 1..Len(stored) :
                          /\ result.report.messages[i].sequence = stored[i]
                          /\ result.report.messages[i].subject = msgs[stored[i]].subject
    /\ ScanReturned({"messageSizeDistribution"})
          => /\ result.outcome = "ok"
             /\ LET stored == StoredIn(Max(1, last_seq - result.count + 1), last_seq)
                IN  /\ Len(result.report.sizes) = Len(stored)
                    /\ \A i \in 1..Len(stored) : result.report.sizes[i] = msgs[stored[i]].size

FilteredScanTools ==
    {"listMessagesBySubject", "listMessagesBySubjectBase",
     "searchMessagesByHeader", "searchMessagesByHeaderBase"}

GlobOf(filter) == [i \in 1..Len(filter) |-> IF filter[i] = "*" THEN "anystar" ELSE filter[i]]

\* C30: every message listMessagesBySubject returns has a subject equal to
\* the filter when the filter has no '*', and a subject that matches the
\* filter's glob as a whole when it has one.
C30_SubjectFilterMatchesWholeSubject ==
    (/\ result.tool \in {"listMessagesBySubject", "listMessagesBySubjectBase"}
     /\ result.outcome = "ok")
        => \A i \in 1..Len(result.report.messages) :
              LET msgSubject == Text(result.report.messages[i].subject)
              IN  IF "*" \notin SeqToSet(result.filter.subject)
                  THEN msgSubject = result.filter.subject
                  ELSE MatchesFrom(GlobOf(result.filter.subject), 1, msgSubject, 1, TRUE)

\* the names in an optional source list
SourceNames(sources) ==
    IF IsSome(sources) THEN {Get(sources)[i].name : i \in 1..Len(Get(sources))} ELSE {}

\* C24: a removeStreamSource that returns, for a source name that is not in
\* the stream's source list (the list being absent or empty included),
\* returns an error result, issues no request and leaves the descriptor as
\* it was.
C24_RemoveUnknownSourceIsError ==
    [][(/\ result'.tool = "removeStreamSource"
        /\ result'.outcome # "threw"
        /\ result'.sourceStream \notin SourceNames(config.sources))
          => /\ result'.outcome = "error"
             /\ calls' = <<>>
             /\ config' = config]_vars

\* C24 witness: removeStreamSource returned an error without a request on an
\* existing stream that has sources, none of them the one named.
C24_Witness ==
    /\ result.tool = "removeStreamSource"
    /\ result.outcome = "error"
    /\ calls = <<>>
    /\ streamExists
    /\ SourceNames(config.sources) # {}
    /\ result.sourceStream \notin SourceNames(config.sources)

\* each argument of updateStreamConfig with the descriptor field it sets
UpdateFields ==
    {<<"maxAge", "max_age">>, <<"maxBytes", "max_bytes">>, <<"maxMsgs", "max_msgs">>,
     <<"maxMsgSize", "max_msg_size">>, <<"maxConsumers", "max_consumers">>,
     <<"maxMsgsPerSubject", "max_msgs_per_subject">>, <<"storage", "storage">>,
     <<"numReplicas", "num_replicas">>, <<"retention", "retention">>,
     <<"discard", "discard">>, <<"duplicateWindow", "duplicate_window">>,
     <<"sealed", "sealed">>, <<"denyDelete", "deny_delete">>,
     <<"denyPurge", "deny_purge">>, <<"allowRollupHdrs", "allow_rollup_hdrs">>}

\* C25: a successful updateStreamConfig leaves each supplied field at exactly
\* the supplied value, 0 and false included, and every other field, name,
\* subjects and sources among them, at its value before the call.
C25_UpdateSetsSuppliedFieldsOnly ==
    [][(/\ result'.tool = "updateStreamConfig"
        /\ result'.outcome = "ok")
          => /\ \A f \in UpdateFields :
                   config'[f[2]] = IF IsSome(result'.args[f[1]]) THEN result'.args[f[1]]
                                   ELSE config[f[2]]
             /\ config'.name = config.name
             /\ config'.subjects = config.subjects
             /\ config'.sources = config.sources
             /\ DOMAIN config' = DOMAIN config]_vars

\* C25 witness: a successful update that supplied 0 and false has put both
\* into a descriptor that held neither.
C25_Witness ==
    /\ result.tool = "updateStreamConfig"
    /\ result.outcome = "ok"
    /\ result.args.maxMsgs = Some(0)
    /\ result.args.denyDelete = Some(FALSE)
    /\ config = [DefaultConfig EXCEPT !.max_msgs = Some(0)]

\* C26: every backup file written by backupStream carries a name from which
\* listBackups recovers the instant at which the backup was written.
C26_ListBackupsReadsBackupTimes ==
    \A n \in DOMAIN blobs :
        n = BackupFileName(StreamName, blobs[n].timestamp)
            => ParseTimestamp(n) = Some(blobs[n].timestamp)

\* the limit is configured: set, and neither 0 nor -1
LimitConfigured(limit) == IsSome(limit) /\ Get(limit) > 0

\* value is at least 90% of the limit
AtLeastNinetyPercent(value, limit) == 10 * value >= 9 * Get(limit)

\* C27: diagnoseStream reports the size limit as approaching exactly when
\* max_bytes is configured and state.bytes is at least 90% of it, the message
\* limit exactly when max_msgs is configured and state.messages is at least
\* 90% of it, "empty" exactly when there is no message and "no consumers"
\* exactly when there is no consumer.
C27_DiagnoseStreamIssues ==
    (result.tool = "diagnoseStream" /\ result.outcome = "ok")
        => LET cfg    == result.report.config
               state  == result.report.state
               issues == result.report.issues
           IN  /\ "Stream is approaching maximum size limit" \in issues
                     <=> (/\ LimitConfigured(cfg.max_bytes)
                          /\ AtLeastNinetyPercent(state.bytes, cfg.max_bytes))
               /\ "Stream is approaching maximum message limit" \in issues
                     <=> (/\ LimitConfigured(cfg.max_msgs)
                          /\ AtLeastNinetyPercent(state.messages, cfg.max_msgs))
               /\ "Stream is empty" \in issues <=> state.messages = 0
               /\ "No consumers connected" \in issues <=> state.consumer_count = 0

\* C28: a monitorStreamHealth report flags the storage usage whenever the
\* final byte count is at least 90% of the configured max_bytes.
C28_MonitorFlagsStorageAtNinetyPercent ==
    (/\ result.tool = "monitorStreamHealth"
     /\ result.outcome = "ok"
     /\ LimitConfigured(result.report.max_bytes)
     /\ AtLeastNinetyPercent(result.report.bytes, result.report.max_bytes))
        => result.report.storage

\* C29: in SSE mode every message POSTed to /messages gets a response, and a
\* message of a connected client is handled by the transport of that
\* client's own session, however many clients have connected since.
C29_PostHandledByOwnSession ==
    result.tool = "POST /messages"
        => /\ result.responded
           /\ result.session \in process.sseTransports
                 => result.handledBy = Some(result.session)

====
